---- MODULE Spec2Model ----
(***************************************************************************)
(* Model of ignore-hub: the .gitignore merge engine                        *)
(* (src/domain/merge-gitignore.ts) and the template query resolver         *)
(* (src/cli/template-resolution.ts).                                       *)
(*                                                                         *)
(* A string is a sequence of chunks.  A chunk is either one character      *)
(* ("a", "#", " ", "\n", "\r", ...) or a run of characters that occurs in  *)
(* no other chunk ("### IGNORE-HUB GENERATED", "START", "END",             *)
(* "framework", ...), so two chunk sequences denote the same JavaScript    *)
(* string exactly when they are equal, and a substring search on chunks    *)
(* is a substring search on characters.                                    *)
(***************************************************************************)
EXTENDS Integers, Sequences, FiniteSets, TLC

VARIABLES
    file,                       \* content of the output file, Null when it does not exist
    edits,                      \* pieces the user typed into the file so far
    runs,                       \* completed mergeGitignore calls on the file
    existingContent,            \* mergeGitignore argument of the last call
    templates,                  \* mergeGitignore argument of the last call
    includeWatermark,           \* mergeGitignore argument of the last call
    useSimpleSectionSeparator,  \* mergeGitignore argument of the last call
    manualContent,              \* local of the last mergeGitignore call
    existingRules,              \* local of the last mergeGitignore call
    generatedBlock,             \* local of the last mergeGitignore call
    merged,                     \* return value of the last mergeGitignore call
    previousMerged,             \* return value of the call before the last one
    remote,                     \* the template repository: templates with their bodies, in index order
    content,                    \* argument of a direct stripGeneratedBlock / collectRuleSet call
    called,                     \* which exported text function was called last
    stripped,                   \* return value of stripGeneratedBlock(content)
    ruleSet,                    \* return value of collectRuleSet(content)
    index,                      \* the template index handed to the resolver
    rawQueries,                 \* the template names requested on the command line
    resolved,                   \* whether resolveTemplateQueries has returned
    resolutions,                \* per non-blank query: its candidates and its resolveSingleQuery result
    selected,                   \* resolveTemplateQueries result: selected
    issues,                     \* resolveTemplateQueries result: issues
    mode,                       \* "direct" (runDirectGeneration), "wizard" (App) or "none"
    pc,                         \* position of runDirectGeneration
    optStdout,                  \* options.stdout
    builds,                     \* the fetch loops started so far, each with its locals
    mergeCalls,                 \* the mergeGitignore calls made so far
    written,                    \* the writes to the output file and to stdout so far
    errorMessage,               \* message of the error runDirectGeneration threw, Null if none
    step,                       \* App state: step
    previewStatus,              \* App state: previewStatus
    previewContent,             \* App state: previewContent
    failureNames,               \* App state: failureNames
    selectedIds,                \* App state: selectedIds
    stdoutPayload,              \* App state: stdoutPayload
    argv,                       \* the arguments handed to parseCliOptions
    parsed,                     \* what parseCliOptions returned or threw
    cacheFile,                  \* the cache file ~/.cache/ignore-hub/index.json
    network,                    \* "up" when GitHub answers, "down" when requests fail
    loads,                      \* completed loadTemplateIndex calls
    loadCall,                   \* the last loadTemplateIndex call: argument, files, requests made
    loadResult,                 \* what the last loadTemplateIndex call returned or threw
    patternLastIndex,           \* GENERATED_BLOCK_PATTERN.lastIndex, the module-level RegExp object
    callLog,                    \* calls of the two pure functions made by the call sites so far
    tree,                       \* entries of the github/gitignore git tree, in tree order
    loadStatus,                 \* App state: loadStatus
    isWriting,                  \* App state: isWriting
    writes,                     \* the writeFile calls of generateOutput, pending or completed
    indexLoads                  \* loadIndex calls started so far

mergeVars == <<file, edits, runs, existingContent, templates, includeWatermark,
               useSimpleSectionSeparator, manualContent, existingRules,
               generatedBlock, merged, previousMerged, remote>>
textVars == <<content, called, stripped, ruleSet>>
resolverVars == <<index, rawQueries, resolved, resolutions, selected, issues>>
runVars == <<mode, pc, optStdout, builds, mergeCalls, written, errorMessage, step,
             previewStatus, previewContent, failureNames, selectedIds, stdoutPayload>>
cliVars == <<argv, parsed>>
cacheVars == <<cacheFile, network, loads, loadCall, loadResult>>
moduleVars == <<patternLastIndex, callLog, tree>>
wizardVars == <<loadStatus, isWriting, writes, indexLoads>>
shellVars == <<runVars, cliVars, cacheVars, moduleVars, wizardVars>>
vars == <<mergeVars, textVars, resolverVars, shellVars>>

Null == "null"

----------------------------------------------------------------------------
(* JavaScript string primitives on chunk sequences *)

LF == "\n"
CR == "\r"

\* characters String.prototype.trim / trimEnd remove
WhiteSpace == {" ", LF, CR}

\* chunks whose first character is '#'
HashChunks == {"#", "### IGNORE-HUB GENERATED"}

StartsWith(s, prefix) ==
    /\ Len(prefix) <= Len(s)
    /\ SubSeq(s, 1, Len(prefix)) = prefix

Drop(s, n) == SubSeq(s, n + 1, Len(s))

\* String.prototype.indexOf: first 1-based position of pat in s, 0 when absent
IndexOf(s, pat) ==
    LET hits == {i \in 1..(Len(s) - Len(pat) + 1) : SubSeq(s, i, i + Len(pat) - 1) = pat}
    IN  IF hits = {} THEN 0 ELSE CHOOSE i \in hits : \A j \in hits : i <= j

Includes(s, pat) == IndexOf(s, pat) # 0

RECURSIVE TrimStart(_)
TrimStart(s) ==
    IF s # <<>> /\ Head(s) \in WhiteSpace THEN TrimStart(Tail(s)) ELSE s

RECURSIVE TrimEnd(_)
TrimEnd(s) ==
    IF s # <<>> /\ s[Len(s)] \in WhiteSpace THEN TrimEnd(SubSeq(s, 1, Len(s) - 1)) ELSE s

Trim(s) == TrimEnd(TrimStart(s))

Indices(s) == [i \in 1..Len(s) |-> i]

\* String.prototype.split("\n"): the pieces between consecutive line feeds
Split(s) ==
    LET lf == SelectSeq(Indices(s), LAMBDA i : s[i] = LF)
        n == Len(lf)
    IN  [k \in 1..(n + 1) |->
            SubSeq(s, IF k = 1 THEN 1 ELSE lf[k - 1] + 1,
                      IF k = n + 1 THEN Len(s) ELSE lf[k] - 1)]

\* Array.prototype.join("\n")
RECURSIVE Join(_)
Join(lines) ==
    IF lines = <<>> THEN <<>>
    ELSE IF Len(lines) = 1 THEN lines[1]
    ELSE lines[1] \o <<LF>> \o Join(Tail(lines))

----------------------------------------------------------------------------
(* src/domain/merge-gitignore.ts *)

GENERATED_BLOCK_START == <<"### IGNORE-HUB GENERATED", " ", "START">>
GENERATED_BLOCK_END == <<"### IGNORE-HUB GENERATED", " ", "END">>

\* content.replace(/\r\n?/g, "\n"): every CR becomes LF and swallows the LF
\* that directly follows it
normalizeNewlines(s) ==
    LET kept == SelectSeq(Indices(s), LAMBDA i : ~(s[i] = LF /\ i > 1 /\ s[i - 1] = CR))
    IN  [k \in 1..Len(kept) |-> IF s[kept[k]] = CR THEN LF ELSE s[kept[k]]]

\* s.replace(GENERATED_BLOCK_PATTERN, ""): START [\s\S]*? END \n?, global.
\* The leftmost match starts at the first START (a START with no END behind it
\* leaves none behind any later START), ends with the first END behind it and
\* an optional line feed, and the search goes on from there
RECURSIVE replaceGeneratedBlocks(_)
replaceGeneratedBlocks(s) ==
    LET b == IndexOf(s, GENERATED_BLOCK_START)
        afterStart == Drop(s, b - 1 + Len(GENERATED_BLOCK_START))
        e == IF b = 0 THEN 0 ELSE IndexOf(afterStart, GENERATED_BLOCK_END)
        afterEnd == Drop(afterStart, e - 1 + Len(GENERATED_BLOCK_END))
    IN  IF e = 0 THEN s
        ELSE SubSeq(s, 1, b - 1) \o replaceGeneratedBlocks(
                 IF afterEnd # <<>> /\ Head(afterEnd) = LF THEN Tail(afterEnd) ELSE afterEnd)

isRuleLine(line) ==
    LET trimmed == Trim(line)
    IN  Len(trimmed) > 0 /\ Head(trimmed) \notin HashChunks

\* the rule stored as written
normalizeRuleLine_Untrimmed(line) == line

normalizeRuleLine(line) == Trim(line)

RECURSIVE trimTrailingBlankLines(_)
trimTrailingBlankLines(lines) ==
    IF lines # <<>> /\ lines[Len(lines)] = <<>>
    THEN trimTrailingBlankLines(SubSeq(lines, 1, Len(lines) - 1))
    ELSE lines

stripGeneratedBlock(c) ==
    TrimEnd(replaceGeneratedBlocks(normalizeNewlines(c)))

RECURSIVE collectRules(_, _)
collectRules(lines, rules) ==
    IF lines = <<>> THEN rules
    ELSE collectRules(Tail(lines),
                      IF isRuleLine(Head(lines))
                      THEN rules \cup {normalizeRuleLine(Head(lines))}
                      ELSE rules)

collectRuleSet(c) == collectRules(Split(normalizeNewlines(c)), {})

\* comment lines checked against the seen set like rule lines
RECURSIVE dedupeLoop_CommentsDeduplicated(_, _, _)
dedupeLoop_CommentsDeduplicated(lines, output, seenRules) ==
    IF lines = <<>> THEN [output |-> output, seenRules |-> seenRules]
    ELSE LET line == Head(lines)
         IN  IF Trim(line) = <<>>
             THEN dedupeLoop_CommentsDeduplicated(Tail(lines), Append(output, line), seenRules)
             ELSE IF normalizeRuleLine(line) \in seenRules
                  THEN dedupeLoop_CommentsDeduplicated(Tail(lines), output, seenRules)
                  ELSE dedupeLoop_CommentsDeduplicated(Tail(lines), Append(output, line),
                                  seenRules \cup {normalizeRuleLine(line)})

\* the loop of dedupeTemplateSourceLines: output lines and the updated seenRules
RECURSIVE dedupeLoop(_, _, _)
dedupeLoop(lines, output, seenRules) ==
    IF lines = <<>> THEN [output |-> output, seenRules |-> seenRules]
    ELSE LET line == Head(lines)
         IN  IF ~isRuleLine(line)
             THEN dedupeLoop(Tail(lines), Append(output, line), seenRules)
             ELSE IF normalizeRuleLine(line) \in seenRules
                  THEN dedupeLoop(Tail(lines), output, seenRules)
                  ELSE dedupeLoop(Tail(lines), Append(output, line),
                                  seenRules \cup {normalizeRuleLine(line)})

\* every template deduplicated against the manual rules only
dedupeTemplateSourceLines_FreshSet(source, seenRules) ==
    LET r == dedupeLoop(Split(normalizeNewlines(source)), <<>>, seenRules)
    IN  [output |-> trimTrailingBlankLines(r.output), seenRules |-> seenRules]

dedupeTemplateSourceLines(source, seenRules) ==
    LET r == dedupeLoop(Split(normalizeNewlines(source)), <<>>, seenRules)
    IN  [output |-> trimTrailingBlankLines(r.output), seenRules |-> r.seenRules]

\* the header without its comment marker
getSectionHeader_NoMarker(template, simple) ==
    IF simple
    THEN template.meta.name
    ELSE <<template.meta.kind, ":", " ">> \o template.meta.name

\* the annotated header whatever the option says
getSectionHeader_AlwaysAnnotated(template, simple) ==
    <<"#", "#", "#", " ", template.meta.kind, ":", " ">> \o template.meta.name

getSectionHeader(template, simple) ==
    IF simple
    THEN <<"#", "#", " ">> \o template.meta.name
    ELSE <<"#", "#", "#", " ", template.meta.kind, ":", " ">> \o template.meta.name

\* the for loop of buildGeneratedBlock
RECURSIVE sectionLoop(_, _, _, _)
sectionLoop(ts, lines, seenRules, simple) ==
    IF ts = <<>> THEN lines
    ELSE LET d == dedupeTemplateSourceLines(Head(ts).source, seenRules)
         IN  sectionLoop(Tail(ts),
                         lines \o <<getSectionHeader(Head(ts), simple)>> \o d.output \o << <<>> >>,
                         d.seenRules, simple)

buildGeneratedBlock(ts, rules, watermark, simple) ==
    LET l0 == IF watermark THEN <<GENERATED_BLOCK_START>> ELSE <<>>
        l1 == sectionLoop(ts, l0, rules, simple)
        l2 == IF l1 # <<>> /\ l1[Len(l1)] = <<>> THEN SubSeq(l1, 1, Len(l1) - 1) ELSE l1
        l3 == IF watermark THEN Append(l2, GENERATED_BLOCK_END) ELSE l2
    IN  IF Len(l3) = 0 THEN <<>> ELSE Join(l3)

\* one newline between the manual content and the block
composeOutput_SingleNewline(manual, block) ==
    LET normalizedManual == TrimEnd(normalizeNewlines(manual))
    IN  IF Len(normalizedManual) = 0
        THEN block \o <<LF>>
        ELSE normalizedManual \o <<LF>> \o block \o <<LF>>

composeOutput(manual, block) ==
    LET normalizedManual == TrimEnd(normalizeNewlines(manual))
    IN  IF Len(normalizedManual) = 0
        THEN block \o <<LF>>
        ELSE normalizedManual \o <<LF, LF>> \o block \o <<LF>>

mergeGitignore(existing, ts, watermark, simple) ==
    LET source == IF existing = Null THEN <<>> ELSE existing
        manual == stripGeneratedBlock(source)
        rules == collectRuleSet(manual)
        block == buildGeneratedBlock(ts, rules, watermark, simple)
    IN  composeOutput(manual, block)

----------------------------------------------------------------------------
(* Inputs of the merge engine *)

MaxEdits == 3          \* pieces typed into the output file before generating
MaxTemplates == 2      \* templates selected for one generation
MaxRuns == 3           \* consecutive generations on the same file
MaxRemote == 2         \* templates published in the repository
MaxSourceChunks == 4   \* chunks of all published template bodies together
MaxTextEdits == 4      \* pieces of a text handed to stripGeneratedBlock / collectRuleSet

Seqs(S, n) == UNION {[1..k -> S] : k \in 0..n}
Range(f) == {f[i] : i \in DOMAIN f}

Node == <<"N", "o", "d", "e">>
JavaScript == <<"J", "a", "v", "a", "S", "c", "r", "i", "p", "t">>

\* tests/merge-gitignore.test.ts: TEMPLATE_INDEX
NodeMeta ==
    [id |-> Node, name |-> Node, path |-> Node \o <<".gitignore">>, kind |-> "framework"]
JavaScriptMeta ==
    [id |-> JavaScript, name |-> JavaScript, path |-> JavaScript \o <<".gitignore">>,
     kind |-> "language"]
Nextjs == <<"N", "e", "x", "t", "j", "s">>
NextjsMeta ==
    [id |-> Nextjs, name |-> Nextjs, path |-> Nextjs \o <<".gitignore">>, kind |-> "framework"]
MergeIndex == <<NodeMeta, JavaScriptMeta, NextjsMeta>>

\* tests/merge-gitignore.test.ts: the template bodies "# Node\nnode_modules/\ndist\n"
\* and "# JavaScript\nnode_modules/\n"
TEMPLATES ==
    <<[meta |-> NodeMeta,
       source |-> <<"#", " ">> \o Node \o <<LF, "node_modules/", LF, "dist", LF>>],
      [meta |-> JavaScriptMeta,
       source |-> <<"#", " ">> \o JavaScript \o <<LF, "node_modules/", LF>>]>>

\* what a user may type into the output file, one piece per edit
FilePieces ==
    {<<"dist">>, <<"#">>, <<" ">>, <<LF>>, <<CR>>,
     GENERATED_BLOCK_START, GENERATED_BLOCK_END}

\* chunks of a published template body
SourceChunks == {"dist", "node_modules/", "#", " ", LF}

\* output files found by a generation from freshly published templates
ExistingFiles ==
    {Null, <<"dist">>, <<" ", "dist", LF, "dist">>, <<"#", LF, "node_modules/", " ">>}

\* the two option pairs parseCliOptions produces
CliOptionPairs == {<<TRUE, FALSE>>, <<FALSE, TRUE>>}

----------------------------------------------------------------------------
(* The output file and the generations run on it *)

InitCall ==
    /\ edits = 0
    /\ runs = 0
    /\ existingContent = Null
    /\ templates = <<>>
    /\ includeWatermark = TRUE
    /\ useSimpleSectionSeparator = FALSE
    /\ manualContent = <<>>
    /\ existingRules = {}
    /\ generatedBlock = <<>>
    /\ merged = <<>>
    /\ previousMerged = <<>>

InitResolver ==
    /\ index = <<>>
    /\ rawQueries = <<>>
    /\ resolved = FALSE
    /\ resolutions = <<>>
    /\ selected = <<>>
    /\ issues = <<>>

InitText ==
    /\ content = <<>>
    /\ called = "none"
    /\ stripped = <<>>
    /\ ruleSet = {}

InitRun ==
    /\ mode = "none"
    /\ pc = "start"
    /\ optStdout = FALSE
    /\ builds = <<>>
    /\ mergeCalls = <<>>
    /\ written = <<>>
    /\ errorMessage = Null
    /\ step = "select"
    /\ previewStatus = "idle"
    /\ previewContent = <<>>
    /\ failureNames = <<>>
    /\ selectedIds = {}
    /\ stdoutPayload = Null

\* the value of a result before the call that produces it
NotCalled == [pending |-> TRUE]

InitCli ==
    /\ argv = <<>>
    /\ parsed = NotCalled

\* readFile on a missing file fails with ENOENT
MissingFile == [exists |-> FALSE]

InitCache ==
    /\ cacheFile = MissingFile
    /\ network = "up"
    /\ loads = 0
    /\ loadCall = NotCalled
    /\ loadResult = NotCalled

\* a freshly loaded module: new RegExp(...) has lastIndex 0
InitModule ==
    /\ patternLastIndex = 0
    /\ callLog = <<>>
    /\ tree = <<>>

\* the App before it is mounted
InitWizard ==
    /\ loadStatus = "loading"
    /\ isWriting = FALSE
    /\ writes = <<>>
    /\ indexLoads = 0

InitShell == InitRun /\ InitCli /\ InitCache /\ InitModule /\ InitWizard

callVars == <<existingContent, templates, includeWatermark, useSimpleSectionSeparator,
              manualContent, existingRules, generatedBlock, merged, previousMerged>>

\* the user edits the output file by hand before the first generation
EditFile(piece) ==
    /\ runs = 0
    /\ edits < MaxEdits
    /\ file' = (IF file = Null THEN <<>> ELSE file) \o piece
    /\ edits' = edits + 1
    /\ UNCHANGED <<runs, remote>>
    /\ UNCHANGED callVars
    /\ UNCHANGED textVars
    /\ UNCHANGED resolverVars
    /\ UNCHANGED shellVars

\* one mergeGitignore call on the current file (readExistingOutput); its
\* result replaces the file (writeFile)
Merge(ts, watermark, simple) ==
    /\ existingContent' = file
    /\ templates' = ts
    /\ includeWatermark' = watermark
    /\ useSimpleSectionSeparator' = simple
    /\ manualContent' = stripGeneratedBlock(IF file = Null THEN <<>> ELSE file)
    /\ existingRules' = collectRuleSet(manualContent')
    /\ generatedBlock' = buildGeneratedBlock(ts, existingRules', watermark, simple)
    /\ merged' = composeOutput(manualContent', generatedBlock')
    /\ previousMerged' = merged
    /\ file' = merged'
    /\ runs' = runs + 1
    /\ UNCHANGED <<edits, remote>>
    /\ UNCHANGED textVars
    /\ UNCHANGED resolverVars
    /\ UNCHANGED shellVars

\* first generation: any selection of repository templates, any options
Generate ==
    /\ runs = 0
    /\ \E ts \in Seqs(Range(remote), MaxTemplates), watermark \in BOOLEAN, simple \in BOOLEAN :
           Merge(ts, watermark, simple)

\* the same generation run again on the file the previous run wrote
Regenerate ==
    /\ runs >= 1
    /\ runs < MaxRuns
    /\ Merge(templates, includeWatermark, useSimpleSectionSeparator)

InitMerge ==
    /\ file = Null
    /\ remote = TEMPLATES
    /\ InitCall
    /\ InitText
    /\ InitResolver
    /\ InitShell

NextMerge ==
    \/ \E piece \in FilePieces : EditFile(piece)
    \/ Generate
    \/ Regenerate

SpecMerge == InitMerge /\ [][NextMerge]_vars

----------------------------------------------------------------------------
(* The template repository and one generation from all of its templates *)

RECURSIVE TotalSourceLen(_)
TotalSourceLen(ts) ==
    IF ts = <<>> THEN 0 ELSE Len(Head(ts).source) + TotalSourceLen(Tail(ts))

\* the next template of the index is published with an empty body
PublishTemplate ==
    /\ runs = 0
    /\ Len(remote) < MaxRemote
    /\ Len(remote) < Len(MergeIndex)
    /\ remote' = Append(remote, [meta |-> MergeIndex[Len(remote) + 1], source |-> <<>>])
    /\ UNCHANGED <<file, edits, runs>>
    /\ UNCHANGED callVars
    /\ UNCHANGED textVars
    /\ UNCHANGED resolverVars
    /\ UNCHANGED shellVars

\* the body of the template published last grows by one chunk
PublishChunk(c) ==
    /\ runs = 0
    /\ remote # <<>>
    /\ TotalSourceLen(remote) < MaxSourceChunks
    /\ remote' = [remote EXCEPT ![Len(remote)].source = Append(@, c)]
    /\ UNCHANGED <<file, edits, runs>>
    /\ UNCHANGED callVars
    /\ UNCHANGED textVars
    /\ UNCHANGED resolverVars
    /\ UNCHANGED shellVars

\* one generation from every published template, in index order, into one
\* of the existing files
GenerateAll ==
    /\ runs = 0
    /\ file \in ExistingFiles
    /\ \E o \in CliOptionPairs : Merge(remote, o[1], o[2])

InitSections ==
    /\ file \in ExistingFiles
    /\ remote = <<>>
    /\ InitCall
    /\ InitText
    /\ InitResolver
    /\ InitShell

NextSections ==
    \/ PublishTemplate
    \/ \E c \in SourceChunks : PublishChunk(c)
    \/ GenerateAll

SpecSections == InitSections /\ [][NextSections]_vars

----------------------------------------------------------------------------
(* Direct calls of the exported text functions *)

TextPieces ==
    {<<"dist">>, <<"node_modules/">>, <<"#">>, <<" ">>, <<LF>>, <<CR>>,
     GENERATED_BLOCK_START, GENERATED_BLOCK_END,
     <<"### IGNORE-HUB GENERATED", " ">>, <<"START">>}

TypeText(piece) ==
    /\ called = "none"
    /\ edits < MaxTextEdits
    /\ content' = content \o piece
    /\ edits' = edits + 1
    /\ UNCHANGED <<called, stripped, ruleSet>>
    /\ UNCHANGED <<file, runs, remote>>
    /\ UNCHANGED callVars
    /\ UNCHANGED resolverVars
    /\ UNCHANGED shellVars

CallStripGeneratedBlock ==
    /\ called = "none"
    /\ called' = "stripGeneratedBlock"
    /\ stripped' = stripGeneratedBlock(content)
    /\ UNCHANGED <<content, ruleSet>>
    /\ UNCHANGED <<file, edits, runs, remote>>
    /\ UNCHANGED callVars
    /\ UNCHANGED resolverVars
    /\ UNCHANGED shellVars

CallCollectRuleSet ==
    /\ called = "none"
    /\ called' = "collectRuleSet"
    /\ ruleSet' = collectRuleSet(content)
    /\ UNCHANGED <<content, stripped>>
    /\ UNCHANGED <<file, edits, runs, remote>>
    /\ UNCHANGED callVars
    /\ UNCHANGED resolverVars
    /\ UNCHANGED shellVars

InitTextCalls ==
    /\ file = Null
    /\ remote = <<>>
    /\ InitCall
    /\ InitText
    /\ InitResolver
    /\ InitShell

NextText ==
    \/ \E piece \in TextPieces : TypeText(piece)
    \/ CallStripGeneratedBlock
    \/ CallCollectRuleSet

SpecText == InitTextCalls /\ [][NextText]_vars

----------------------------------------------------------------------------
(* Properties of the merge engine *)

OrEmpty(c) == IF c = Null THEN <<>> ELSE c

HasSentinel(s) == Includes(s, GENERATED_BLOCK_START) \/ Includes(s, GENERATED_BLOCK_END)

\* the trimmed rule lines of a text, in order, repeats kept
RECURSIVE RuleLinesOf(_)
RuleLinesOf(lines) ==
    IF lines = <<>> THEN <<>>
    ELSE LET t == Trim(Head(lines))
         IN  (IF t # <<>> /\ Head(t) \notin HashChunks THEN <<t>> ELSE <<>>)
             \o RuleLinesOf(Tail(lines))

Occurrences(seq, x) == Cardinality({i \in DOMAIN seq : seq[i] = x})

\* the lines of a text that begin with "##", in order
RECURSIVE HeaderLinesOf(_)
HeaderLinesOf(lines) ==
    IF lines = <<>> THEN <<>>
    ELSE (IF StartsWith(Head(lines), <<"#", "#">>) THEN <<Head(lines)>> ELSE <<>>)
         \o HeaderLinesOf(Tail(lines))

SimpleHeader(t) == <<"#", "#", " ">> \o t.meta.name
AnnotatedHeader(t) == <<"#", "#", "#", " ", t.meta.kind, ":", " ">> \o t.meta.name

\* C1: running mergeGitignore again on its own output with the same
\* templates and options returns the same string, however often it is repeated
C1_Idempotence ==
    runs >= 2 => merged = previousMerged

\* C2: no rule of the generated block repeats a rule of the block or of the
\* manual content, so a rule occurs twice in the output only when the manual
\* content already has it twice
C2_RuleUniqueness ==
    runs >= 1 =>
        LET blockRules == RuleLinesOf(Split(generatedBlock))
            manualRules == RuleLinesOf(Split(manualContent))
            outputRules == RuleLinesOf(Split(merged))
        IN  /\ \A i, j \in DOMAIN blockRules : i # j => blockRules[i] # blockRules[j]
            /\ \A i \in DOMAIN blockRules : \A k \in DOMAIN manualRules :
                   blockRules[i] # manualRules[k]
            /\ \A r \in Range(outputRules) :
                   Occurrences(outputRules, r) > 1 => Occurrences(manualRules, r) > 1

\* a rule shared by the manual content and both templates, and a second rule
\* shared by the two templates only
C2_Witness ==
    /\ runs = 1
    /\ Len(templates) = 2
    /\ <<"dist">> \in existingRules
    /\ <<"dist">> \in collectRuleSet(templates[2].source)
    /\ <<"node_modules/">> \notin existingRules
    /\ <<"node_modules/">> \in collectRuleSet(templates[1].source)
    /\ <<"node_modules/">> \in collectRuleSet(templates[2].source)

\* C3: stripGeneratedBlock of the merge output is the manual content that
\* went in, stripGeneratedBlock of the existing content
C3_ManualPreservation ==
    runs >= 1 => stripGeneratedBlock(merged) = stripGeneratedBlock(OrEmpty(existingContent))

\* C4: the result of stripGeneratedBlock contains neither sentinel
C4_StrippedHasNoSentinel ==
    called = "stripGeneratedBlock" => ~HasSentinel(stripped)

\* C5: without the watermark the output contains neither sentinel and still
\* has one section header per template
C5_WatermarkToggle ==
    (runs >= 1 /\ ~includeWatermark) =>
        /\ ~HasSentinel(merged)
        /\ Len(HeaderLinesOf(Split(generatedBlock))) = Len(templates)

\* C6: the block has one header per template, in template order, each
\* "## <name>" with simple separators and "### <kind>: <name>" without
C6_SeparatorToggle ==
    runs >= 1 =>
        LET headers == HeaderLinesOf(Split(generatedBlock))
        IN  /\ Len(headers) = Len(templates)
            /\ \A k \in DOMAIN headers :
                   headers[k] = IF useSimpleSectionSeparator
                                THEN SimpleHeader(templates[k])
                                ELSE AnnotatedHeader(templates[k])

C6_Witness ==
    /\ runs = 1
    /\ useSimpleSectionSeparator
    /\ includeWatermark
    /\ Len(templates) = 2
    /\ templates[1].meta = JavaScriptMeta
    /\ templates[2].meta = NodeMeta

\* C7: an empty template list gives the empty block, with or without watermark
C7_EmptyTemplatesEmptyBlock ==
    (runs >= 1 /\ templates = <<>>) => generatedBlock = <<>>

\* C8: the output is the block and a newline when the manual content is
\* empty, else the manual content, a blank line, the block and a newline
C8_OutputLayout ==
    runs >= 1 =>
        /\ manualContent = stripGeneratedBlock(OrEmpty(existingContent))
        /\ merged = IF manualContent = <<>>
                    THEN generatedBlock \o <<LF>>
                    ELSE manualContent \o <<LF, LF>> \o generatedBlock \o <<LF>>

\* a file whose manual part is followed by an old block and trailing blanks
C8_Witness ==
    /\ runs = 1
    /\ existingContent # Null
    /\ manualContent # <<>>
    /\ Len(manualContent) < Len(existingContent)
    /\ templates # <<>>

\* the non-empty maximal runs of chunks of a text between line terminators
LineRuns(c) ==
    {SubSeq(c, p[1], p[2]) : p \in
        {q \in (1..Len(c)) \X (1..Len(c)) :
            /\ q[1] <= q[2]
            /\ \A k \in q[1]..q[2] : c[k] \notin {LF, CR}
            /\ q[1] = 1 \/ c[q[1] - 1] \in {LF, CR}
            /\ q[2] = Len(c) \/ c[q[2] + 1] \in {LF, CR}}}

\* C9: collectRuleSet returns the trimmed values of exactly the lines that,
\* trimmed, are non-empty and do not start with '#'
C9_CollectRuleSet ==
    called = "collectRuleSet" =>
        ruleSet = {Trim(l) : l \in {r \in LineRuns(content) :
                                       Trim(r) # <<>> /\ Head(Trim(r)) \notin HashChunks}}

\* an indented rule behind a comment line
C9_Witness ==
    /\ called = "collectRuleSet"
    /\ content = <<"#", CR, " ", "dist">>
    /\ ruleSet = {<<"dist">>}

----------------------------------------------------------------------------
(* src/domain/classification.ts: normalizeTemplateName *)

UpperCase == <<"A", "B", "C", "D", "E", "F", "G", "H", "I", "J", "K", "L", "M", "N", "O", "P", "Q", "R", "S", "T", "U", "V", "W", "X", "Y", "Z">>
LowerCase == <<"a", "b", "c", "d", "e", "f", "g", "h", "i", "j", "k", "l", "m", "n", "o", "p", "q", "r", "s", "t", "u", "v", "w", "x", "y", "z">>
Digits == {"0", "1", "2", "3", "4", "5", "6", "7", "8", "9"}

\* String.prototype.toLowerCase, one character
ToLowerChar(c) ==
    IF \E i \in DOMAIN UpperCase : UpperCase[i] = c
    THEN LowerCase[CHOOSE i \in DOMAIN UpperCase : UpperCase[i] = c]
    ELSE c

RECURSIVE ToLowerCase(_)
ToLowerCase(s) ==
    IF s = <<>> THEN <<>> ELSE <<ToLowerChar(Head(s))>> \o ToLowerCase(Tail(s))

\* name.toLowerCase().replace(/[^a-z0-9]+/g, "")
normalizeTemplateName(name) ==
    SelectSeq(ToLowerCase(name), LAMBDA c : c \in Range(LowerCase) \cup Digits)

----------------------------------------------------------------------------
(* src/cli/template-resolution.ts *)

TEMPLATE_ALIASES ==
    [q \in {<<"j", "s">>, <<"n", "o", "d", "e", "j", "s">>, <<"t", "s">>, <<"c", "s", "h", "a", "r", "p">>, <<"p", "y">>} |->
        CASE q = <<"j", "s">> -> << <<"j", "a", "v", "a", "s", "c", "r", "i", "p", "t">> >>
          [] q = <<"n", "o", "d", "e", "j", "s">> -> << <<"n", "o", "d", "e">> >>
          [] q = <<"t", "s">> -> << <<"t", "y", "p", "e", "s", "c", "r", "i", "p", "t">> >>
          [] q = <<"c", "s", "h", "a", "r", "p">> -> << <<"c", "s", "h", "a", "r", "p">>, <<"c", "#">> >>
          [] q = <<"p", "y">> -> << <<"p", "y", "t", "h", "o", "n">> >>]

normalize(query) == normalizeTemplateName(query)

\* the first entry of every id, in order
RECURSIVE dedupeLoopIds(_, _, _)
dedupeLoopIds(ts, seen, output) ==
    IF ts = <<>> THEN output
    ELSE IF Head(ts).id \in seen
         THEN dedupeLoopIds(Tail(ts), seen, output)
         ELSE dedupeLoopIds(Tail(ts), seen \cup {Head(ts).id}, Append(output, Head(ts)))

dedupeTemplateIds(ts) == dedupeLoopIds(ts, {}, <<>>)

templateMatchesQuery(template, normalizedQuery) ==
    LET normalizedId == normalize(template.id)
        normalizedName == normalize(template.name)
    IN  \/ normalizedId = normalizedQuery
        \/ normalizedName = normalizedQuery
        \/ Includes(normalizedId, normalizedQuery)
        \/ Includes(normalizedName, normalizedQuery)

templateMatchesExact(template, normalizedQuery) ==
    LET normalizedId == normalize(template.id)
        normalizedName == normalize(template.name)
    IN  normalizedId = normalizedQuery \/ normalizedName = normalizedQuery

\* a prefix match on the first character alone
templateStartsWithQuery_FirstCharacter(template, normalizedQuery) ==
    /\ normalizedQuery # <<>>
    /\ \/ StartsWith(normalize(template.id), <<Head(normalizedQuery)>>)
       \/ StartsWith(normalize(template.name), <<Head(normalizedQuery)>>)

templateStartsWithQuery(template, normalizedQuery) ==
    LET normalizedId == normalize(template.id)
        normalizedName == normalize(template.name)
    IN  StartsWith(normalizedId, normalizedQuery) \/ StartsWith(normalizedName, normalizedQuery)

\* a.kind.localeCompare(b.kind) on the three kinds
KindRank(kind) ==
    CASE kind = "framework" -> 1
      [] kind = "global" -> 2
      [] kind = "language" -> 3

\* collation rank of one character at sensitivity "base": case is ignored,
\* punctuation sorts before digits, digits before letters
CharRank(c) ==
    LET l == ToLowerChar(c)
    IN  IF \E i \in DOMAIN LowerCase : LowerCase[i] = l
        THEN 20 + (CHOOSE i \in DOMAIN LowerCase : LowerCase[i] = l)
        ELSE IF l \in Digits THEN 10 ELSE 0

\* a.localeCompare(b, undefined, {sensitivity: "base"}): -1, 0 or 1
RECURSIVE localeCompareBase(_, _)
localeCompareBase(a, b) ==
    IF a = <<>> /\ b = <<>> THEN 0
    ELSE IF a = <<>> THEN -1
    ELSE IF b = <<>> THEN 1
    ELSE IF CharRank(Head(a)) < CharRank(Head(b)) THEN -1
    ELSE IF CharRank(Head(a)) > CharRank(Head(b)) THEN 1
    ELSE localeCompareBase(Tail(a), Tail(b))

\* the comparator of sortTemplates: kind first, then name
compareTemplates(a, b) ==
    IF KindRank(a.kind) # KindRank(b.kind)
    THEN (IF KindRank(a.kind) < KindRank(b.kind) THEN -1 ELSE 1)
    ELSE localeCompareBase(a.name, b.name)

\* stable insertion of t into a sorted list
RECURSIVE insertSorted(_, _)
insertSorted(sorted, t) ==
    IF sorted = <<>> THEN <<t>>
    ELSE IF compareTemplates(t, Head(sorted)) < 0
         THEN <<t>> \o sorted
         ELSE <<Head(sorted)>> \o insertSorted(Tail(sorted), t)

\* [...templates].sort(comparator): Array.prototype.sort is stable
RECURSIVE sortLoop(_, _)
sortLoop(ts, sorted) ==
    IF ts = <<>> THEN sorted ELSE sortLoop(Tail(ts), insertSorted(sorted, Head(ts)))

\* the comparator with its operands swapped
sortTemplates_Descending(ts) ==
    LET ascending == sortLoop(ts, <<>>)
    IN  [i \in 1..Len(ascending) |-> ascending[Len(ascending) + 1 - i]]

sortTemplates(ts) == sortLoop(ts, <<>>)

makeMatchQueryCandidates(ts, normalizedQuery) ==
    sortTemplates(dedupeTemplateIds(
        SelectSeq(ts, LAMBDA t : templateMatchesQuery(t, normalizedQuery))))

\* the exact pass filtering with the substring predicate
makeExactCandidates_Substring(ts, normalizedQuery) ==
    sortTemplates(dedupeTemplateIds(
        SelectSeq(ts, LAMBDA t : templateMatchesQuery(t, normalizedQuery))))

makeExactCandidates(ts, normalizedQuery) ==
    sortTemplates(dedupeTemplateIds(
        SelectSeq(ts, LAMBDA t : templateMatchesExact(t, normalizedQuery))))

makeFallbackCandidates(ts, normalizedQuery) ==
    sortTemplates(dedupeTemplateIds(
        SelectSeq(ts, LAMBDA t : templateStartsWithQuery(t, normalizedQuery))))

expandAliases(query) ==
    LET normalized == normalize(query)
    IN  IF normalized \in DOMAIN TEMPLATE_ALIASES THEN TEMPLATE_ALIASES[normalized]
        ELSE <<normalized>>

RECURSIVE MapNormalize(_)
MapNormalize(qs) ==
    IF qs = <<>> THEN <<>> ELSE <<normalize(Head(qs))>> \o MapNormalize(Tail(qs))

\* [...new Set(values)]: first occurrences, in insertion order
RECURSIVE UniqueInOrder(_, _)
UniqueInOrder(values, output) ==
    IF values = <<>> THEN output
    ELSE UniqueInOrder(Tail(values),
                       IF Head(values) \in Range(output) THEN output
                       ELSE Append(output, Head(values)))

\* the raw query tried before its alias targets
directQueriesOf_RawFirst(rawQuery) ==
    LET expandedQueries == MapNormalize(expandAliases(rawQuery))
        rawNormalized == normalize(rawQuery)
    IN  UniqueInOrder(<<rawNormalized>> \o expandedQueries, <<>>)

\* resolveSingleQuery, lines 138-143: the candidate queries of a raw query
directQueriesOf(rawQuery) ==
    LET expandedQueries == MapNormalize(expandAliases(rawQuery))
        rawNormalized == normalize(rawQuery)
    IN  UniqueInOrder(expandedQueries \o <<rawNormalized>>, <<>>)

Resolved(t) == [template |-> t]
Issue(type, query, rawQuery, matches) ==
    [type |-> type, query |-> query, rawQuery |-> rawQuery, matches |-> matches]
IsResolved(r) == "template" \in DOMAIN r

\* the exact passes of all candidate queries before any substring pass
directLoop_ExactPassesFirst(ts, queries, rawQuery) ==
    LET exactHits == SelectSeq(queries, LAMBDA q : makeExactCandidates(ts, q) # <<>>)
        hits == SelectSeq(queries, LAMBDA q : makeMatchQueryCandidates(ts, q) # <<>>)
        found == IF exactHits # <<>> THEN makeExactCandidates(ts, exactHits[1])
                 ELSE IF hits # <<>> THEN makeMatchQueryCandidates(ts, hits[1])
                 ELSE <<>>
        query == IF exactHits # <<>> THEN exactHits[1] ELSE IF hits # <<>> THEN hits[1] ELSE <<>>
    IN  IF found = <<>> THEN <<>>
        ELSE IF Len(found) = 1 THEN <<Resolved(found[1])>>
        ELSE <<Issue("ambiguous", query, rawQuery, found)>>

\* resolveSingleQuery, lines 145-181: the exact pass and the substring pass
\* of each candidate query in turn; <<>> when no candidate query matched
RECURSIVE directLoop(_, _, _)
directLoop(ts, queries, rawQuery) ==
    IF queries = <<>> THEN <<>>
    ELSE LET query == Head(queries)
             exactCandidates == makeExactCandidates(ts, query)
             candidates == makeMatchQueryCandidates(ts, query)
         IN  IF Len(exactCandidates) = 1 THEN <<Resolved(exactCandidates[1])>>
             ELSE IF Len(exactCandidates) > 1
                  THEN <<Issue("ambiguous", query, rawQuery, exactCandidates)>>
             ELSE IF Len(candidates) = 1 THEN <<Resolved(candidates[1])>>
             ELSE IF Len(candidates) > 1
                  THEN <<Issue("ambiguous", query, rawQuery, candidates)>>
             ELSE directLoop(ts, Tail(queries), rawQuery)

\* directQueries.flatMap(query => makeFallbackCandidates(templates, query))
RECURSIVE fallbackOf(_, _)
fallbackOf(ts, queries) ==
    IF queries = <<>> THEN <<>>
    ELSE makeFallbackCandidates(ts, Head(queries)) \o fallbackOf(ts, Tail(queries))

\* the unknown issue carrying the normalized query in place of the raw one
resolveSingleQuery_NormalizedRawQuery(ts, rawQuery) ==
    LET directQueries == directQueriesOf(rawQuery)
        direct == directLoop(ts, directQueries, rawQuery)
        dedupedFallback == dedupeTemplateIds(fallbackOf(ts, directQueries))
    IN  IF direct # <<>> THEN direct
        ELSE IF Len(dedupedFallback) = 1 THEN <<Resolved(dedupedFallback[1])>>
        ELSE <<Issue("unknown", directQueries[1], directQueries[1],
                     SubSeq(dedupedFallback, 1, IF Len(dedupedFallback) < 8
                                                THEN Len(dedupedFallback) ELSE 8))>>

resolveSingleQuery(ts, rawQuery) ==
    LET directQueries == directQueriesOf(rawQuery)
        direct == directLoop(ts, directQueries, rawQuery)
        dedupedFallback == dedupeTemplateIds(fallbackOf(ts, directQueries))
    IN  IF direct # <<>> THEN direct
        ELSE IF Len(dedupedFallback) = 1 THEN <<Resolved(dedupedFallback[1])>>
        ELSE <<Issue("unknown", directQueries[1], rawQuery,
                     SubSeq(dedupedFallback, 1, IF Len(dedupedFallback) < 8
                                                THEN Len(dedupedFallback) ELSE 8))>>

\* the loop body without the seen set
resolveStep_NoSeenCheck(ts, acc, query) ==
    LET trimmedQuery == Trim(query)
        first == resolveSingleQuery(ts, trimmedQuery)[1]
        call == [rawQuery |-> trimmedQuery,
                 directQueries |-> directQueriesOf(trimmedQuery),
                 result |-> first]
    IN  IF Len(trimmedQuery) = 0 THEN acc
        ELSE IF IsResolved(first)
             THEN [acc EXCEPT !.selected = Append(@, first.template),
                              !.calls = Append(@, call)]
             ELSE [acc EXCEPT !.issues = Append(@, first),
                              !.calls = Append(@, call)]

\* one iteration of the loop of resolveTemplateQueries, lines 213-234; acc
\* carries selected, issues, seen and the record of every resolveSingleQuery call
resolveStep(ts, acc, query) ==
    LET trimmedQuery == Trim(query)
        first == resolveSingleQuery(ts, trimmedQuery)[1]
        call == [rawQuery |-> trimmedQuery,
                 directQueries |-> directQueriesOf(trimmedQuery),
                 result |-> first]
    IN  IF Len(trimmedQuery) = 0 THEN acc
        ELSE IF IsResolved(first)
             THEN IF first.template.id \notin acc.seen
                  THEN [acc EXCEPT !.selected = Append(@, first.template),
                                   !.seen = @ \cup {first.template.id},
                                   !.calls = Append(@, call)]
                  ELSE [acc EXCEPT !.calls = Append(@, call)]
             ELSE [acc EXCEPT !.issues = Append(@, first),
                              !.calls = Append(@, call)]

\* for (const query of queries)
RECURSIVE resolveLoop(_, _, _)
resolveLoop(ts, queries, acc) ==
    IF queries = <<>> THEN acc
    ELSE resolveLoop(ts, Tail(queries), resolveStep(ts, acc, Head(queries)))

\* the selection withheld as soon as one query fails
resolveTemplateQueries_SelectionDroppedOnIssue(ts, queries) ==
    LET r == resolveLoop(ts, queries, [selected |-> <<>>, issues |-> <<>>, seen |-> {}, calls |-> <<>>])
    IN  IF r.issues # <<>> THEN [r EXCEPT !.selected = <<>>] ELSE r

resolveTemplateQueries(ts, queries) ==
    resolveLoop(ts, queries, [selected |-> <<>>, issues |-> <<>>, seen |-> {}, calls |-> <<>>])

----------------------------------------------------------------------------
(* src/domain/classification.ts: classifyTemplatePath and buildCacheIndex; *)
(* src/data/github-client.ts: fetchTemplatePaths                           *)

GlobalPrefix == <<"G", "l", "o", "b", "a", "l", "/">>

\* /\.gitignore$/: the path ends with the chunk ".gitignore"
GITIGNORE_FILE_SUFFIX(path) == path # <<>> /\ path[Len(path)] = ".gitignore"

\* /^[^/]+\.gitignore$/
ROOT_TEMPLATE_PATTERN(path) ==
    /\ GITIGNORE_FILE_SUFFIX(path)
    /\ Len(path) >= 2
    /\ \A i \in 1..(Len(path) - 1) : path[i] # "/"

\* /^Global\/.+\.gitignore$/
GLOBAL_TEMPLATE_PATTERN(path) ==
    /\ GITIGNORE_FILE_SUFFIX(path)
    /\ StartsWith(path, GlobalPrefix)
    /\ Len(path) >= Len(GlobalPrefix) + 2

isSupportedTemplatePath(path) == ROOT_TEMPLATE_PATTERN(path) \/ GLOBAL_TEMPLATE_PATTERN(path)

\* path.replace(GITIGNORE_FILE_SUFFIX, "")
cleanedPathOf(path) ==
    IF GITIGNORE_FILE_SUFFIX(path) THEN SubSeq(path, 1, Len(path) - 1) ELSE path

getTemplateNameFromPath(path) ==
    IF StartsWith(cleanedPathOf(path), GlobalPrefix)
    THEN Drop(cleanedPathOf(path), Len(GlobalPrefix))
    ELSE cleanedPathOf(path)

\* the id of a Global template without its namespace
getTemplateIdFromPath_NamespaceDropped(path) == getTemplateNameFromPath(path)

getTemplateIdFromPath(path) == cleanedPathOf(path)

\* the entries of the three name lists that the modelled tree can reach
LANGUAGE_TEMPLATE_NAMES ==
    {normalizeTemplateName(n) : n \in {<<"C">>, <<"C", "+", "+">>, <<"J", "a", "v", "a">>,
                                       <<"J", "a", "v", "a", "S", "c", "r", "i", "p", "t">>}}
FRAMEWORK_TEMPLATE_NAMES ==
    {normalizeTemplateName(n) : n \in {<<"N", "e", "x", "t", "j", "s">>, <<"N", "o", "d", "e">>}}
LANGUAGE_HINTS == {<<"j", "a", "v", "a">>, <<"z", "i", "g">>}

classifyRootTemplate(templateName) ==
    LET normalized == normalizeTemplateName(templateName)
    IN  IF normalized \in LANGUAGE_TEMPLATE_NAMES THEN "language"
        ELSE IF normalized \in FRAMEWORK_TEMPLATE_NAMES THEN "framework"
        ELSE IF \E hint \in LANGUAGE_HINTS : Includes(normalized, hint) THEN "language"
        ELSE "framework"

NotATemplate == [supported |-> FALSE]

classifyTemplatePath(path) ==
    IF ~isSupportedTemplatePath(path) THEN NotATemplate
    ELSE [id |-> getTemplateIdFromPath(path),
          name |-> getTemplateNameFromPath(path),
          path |-> path,
          kind |-> IF StartsWith(path, GlobalPrefix)
                   THEN "global"
                   ELSE classifyRootTemplate(getTemplateNameFromPath(path))]

\* paths.map(classifyTemplatePath).filter(template !== null), then sorted by
\* kind and name with the comparator the resolver's sortTemplates uses
buildCacheIndex(paths) ==
    [fetchedAt |-> "fetchedAt", sourceRef |-> "main",
     templates |-> sortTemplates(
         SelectSeq([k \in DOMAIN paths |-> classifyTemplatePath(paths[k])],
                   LAMBDA t : t # NotATemplate))]

\* stable insertion of a path into a list sorted with localeCompare, base sensitivity
RECURSIVE insertPath(_, _)
insertPath(sorted, p) ==
    IF sorted = <<>> THEN <<p>>
    ELSE IF localeCompareBase(p, Head(sorted)) < 0
         THEN <<p>> \o sorted
         ELSE <<Head(sorted)>> \o insertPath(Tail(sorted), p)

RECURSIVE sortPaths(_, _)
sortPaths(paths, sorted) ==
    IF paths = <<>> THEN sorted ELSE sortPaths(Tail(paths), insertPath(sorted, Head(paths)))

\* fetchTemplatePaths on a tree payload: the blobs with a supported path, sorted
fetchTemplatePaths(entries) ==
    LET blobs == SelectSeq(entries, LAMBDA e : e.type = "blob")
        paths == [k \in DOMAIN blobs |-> blobs[k].path]
    IN  sortPaths(SelectSeq(paths, isSupportedTemplatePath), <<>>)

----------------------------------------------------------------------------
(* The template index and the queries resolved against it *)

MaxIndexSize == 3    \* templates of the index
MaxQueries == 2      \* template names of one resolveTemplateQueries call

Meta(id, kind) == [id |-> id, name |-> id, path |-> id \o <<".gitignore">>, kind |-> kind]

\* an index snapshot as buildCacheIndex sorts it: by kind, then by name
IndexCatalogue ==
    <<Meta(<<"N", "e", "x", "t", "j", "s">>, "framework"), Meta(<<"N", "o", "d", "e">>, "framework"),
      Meta(<<"N", "o", "d", "e", "j", "s">>, "framework"), Meta(<<"N", "o", "d", "e", "R", "E", "D">>, "framework"),
      classifyTemplatePath(GlobalPrefix \o <<"M", "o", "n", "o", "D", "e", "v", "e", "l", "o", "p", ".gitignore">>),
      Meta(<<"C">>, "language"), Meta(<<"C", "+", "+">>, "language"),
      Meta(<<"J", "a", "v", "a">>, "language"), Meta(<<"J", "a", "v", "a", "S", "c", "r", "i", "p", "t">>, "language")>>

\* template names a user passes with --template
QueryMenu ==
    {<<"j", "s">>, <<" ", "J", "S", " ">>, <<"j", "a">>, <<"j", "a", "v", "a">>, <<"n", "o", "d", "e">>, <<"n", "o", "d", "e", "j", "s">>,
     <<"c", "s", "h", "a", "r", "p">>, <<"c", "#">>, <<"-">>, <<" ">>, <<"z", "i", "g">>, <<"m", "o", "n", "o">>}

\* the index is loaded template by template, in catalogue order
IndexTemplate(i) ==
    /\ ~resolved
    /\ rawQueries = <<>>
    /\ Len(index) < MaxIndexSize
    /\ \A k \in i..Len(IndexCatalogue) : \A j \in DOMAIN index : index[j] # IndexCatalogue[k]
    /\ index' = Append(index, IndexCatalogue[i])
    /\ UNCHANGED <<rawQueries, resolved, resolutions, selected, issues>>
    /\ UNCHANGED mergeVars
    /\ UNCHANGED textVars
    /\ UNCHANGED shellVars

\* parseCliOptions collects one more requested template name
AddQuery(q) ==
    /\ ~resolved
    /\ Len(rawQueries) < MaxQueries
    /\ rawQueries' = Append(rawQueries, q)
    /\ UNCHANGED <<index, resolved, resolutions, selected, issues>>
    /\ UNCHANGED mergeVars
    /\ UNCHANGED textVars
    /\ UNCHANGED shellVars

\* runDirectGeneration calls resolveTemplateQueries(index.templates, requested names)
Resolve ==
    /\ ~resolved
    /\ rawQueries # <<>>
    /\ LET r == resolveTemplateQueries(index, rawQueries)
       IN  /\ selected' = r.selected
           /\ issues' = r.issues
           /\ resolutions' = r.calls
    /\ resolved' = TRUE
    /\ UNCHANGED <<index, rawQueries>>
    /\ UNCHANGED mergeVars
    /\ UNCHANGED textVars
    /\ UNCHANGED shellVars

InitResolve ==
    /\ file = Null
    /\ remote = <<>>
    /\ InitCall
    /\ InitText
    /\ InitResolver
    /\ InitShell

NextResolve ==
    \/ \E i \in DOMAIN IndexCatalogue : IndexTemplate(i)
    \/ \E q \in QueryMenu : AddQuery(q)
    \/ Resolve

SpecResolve == InitResolve /\ [][NextResolve]_vars

----------------------------------------------------------------------------
(* Properties of the query resolver *)

\* the templates of the index whose normalized id or name is exactly q
ExactMatches(q) ==
    {i \in DOMAIN index :
        normalizeTemplateName(index[i].id) = q \/ normalizeTemplateName(index[i].name) = q}

\* the candidate queries the alias table prescribes for an aliased short-hand
AliasCandidates(n) ==
    CASE n = <<"j", "s">> -> << <<"j", "a", "v", "a", "s", "c", "r", "i", "p", "t">>, <<"j", "s">> >>
      [] n = <<"n", "o", "d", "e", "j", "s">> -> << <<"n", "o", "d", "e">>, <<"n", "o", "d", "e", "j", "s">> >>
      [] n = <<"t", "s">> -> << <<"t", "y", "p", "e", "s", "c", "r", "i", "p", "t">>, <<"t", "s">> >>
      [] n = <<"c", "s", "h", "a", "r", "p">> -> << <<"c", "s", "h", "a", "r", "p">>, <<"c">> >>
      [] n = <<"p", "y">> -> << <<"p", "y", "t", "h", "o", "n">>, <<"p", "y">> >>

\* C10: an aliased query tries its alias targets first and itself last, so
\* it resolves to the one template that is exactly its first alias target
C10_AliasResolutionOrder ==
    resolved =>
        \A k \in DOMAIN resolutions :
            LET call == resolutions[k]
                n == normalizeTemplateName(call.rawQuery)
            IN  n \in DOMAIN TEMPLATE_ALIASES =>
                    /\ call.directQueries = AliasCandidates(n)
                    /\ Cardinality(ExactMatches(AliasCandidates(n)[1])) = 1 =>
                           /\ call.result =
                                  [template |-> index[CHOOSE i \in ExactMatches(AliasCandidates(n)[1]) : TRUE]]
                           /\ \E j \in DOMAIN selected : selected[j] = call.result.template
                           /\ \A j \in DOMAIN issues : issues[j].rawQuery # call.rawQuery

\* "js" resolves to JavaScript although Nextjs contains "js"
C10_Witness ==
    /\ resolved
    /\ rawQueries = << <<"j", "s">> >>
    /\ \E i \in DOMAIN index : index[i].id = <<"N", "e", "x", "t", "j", "s">>
    /\ \E i \in DOMAIN index : index[i].id = <<"J", "a", "v", "a", "S", "c", "r", "i", "p", "t">>
    /\ Len(selected) = 1
    /\ selected[1].id = <<"J", "a", "v", "a", "S", "c", "r", "i", "p", "t">>
    /\ issues = <<>>

\* the templates of the index whose normalized id or name contains q
SubstringMatches(q) ==
    {i \in DOMAIN index :
        \/ Includes(normalizeTemplateName(index[i].id), q)
        \/ Includes(normalizeTemplateName(index[i].name), q)}

\* the templates of the index whose normalized id or name starts with q
PrefixMatches(q) ==
    {i \in DOMAIN index :
        \/ StartsWith(normalizeTemplateName(index[i].id), q)
        \/ StartsWith(normalizeTemplateName(index[i].name), q)}

\* pass 2c-1 is the exact pass of candidate query c, pass 2c its substring pass
PassMatches(dq, k) ==
    IF k % 2 = 1 THEN ExactMatches(dq[(k + 1) \div 2]) ELSE SubstringMatches(dq[k \div 2])

\* the matches of the first pass that matches anything
FirstMatchingPass(dq) ==
    LET hits == {k \in 1..(2 * Len(dq)) : PassMatches(dq, k) # {}}
    IN  IF hits = {} THEN {}
        ELSE PassMatches(dq, CHOOSE k \in hits : \A h \in hits : k <= h)

\* the calls that resolved to one template, and those that raised an issue
ResolvedCalls == {k \in DOMAIN resolutions : IsResolved(resolutions[k].result)}
IssueCalls == {k \in DOMAIN resolutions : ~IsResolved(resolutions[k].result)}

\* the issue of call k sits in issues behind the issues of the calls before it
IssueReported(k) ==
    LET n == Cardinality({j \in IssueCalls : j <= k})
    IN  /\ k \in IssueCalls
        /\ n <= Len(issues)
        /\ issues[n] = resolutions[k].result

\* the selection holds nothing but templates some call resolved to
SelectionFromResolvedCalls ==
    /\ \A j \in DOMAIN selected :
           \E k \in ResolvedCalls : resolutions[k].result.template = selected[j]
    /\ Len(selected) <= Cardinality(ResolvedCalls)

\* C11: a candidate query reached before any earlier candidate matched, and
\* equal to the normalized id or name of exactly one template, resolves the
\* raw query to that template, whatever other templates contain it
C11_ExactBeforeSubstring ==
    resolved =>
        \A k \in DOMAIN resolutions :
            LET call == resolutions[k]
                dq == call.directQueries
            IN  \A c \in DOMAIN dq :
                    (/\ \A j \in 1..(c - 1) : SubstringMatches(dq[j]) = {}
                     /\ Cardinality(ExactMatches(dq[c])) = 1)
                    => /\ call.result = [template |-> index[CHOOSE i \in ExactMatches(dq[c]) : TRUE]]
                       /\ \E j \in DOMAIN selected : selected[j] = call.result.template

\* "java" resolves to Java although JavaScript contains "java"
C11_Witness ==
    /\ resolved
    /\ rawQueries = << <<"j", "a", "v", "a">> >>
    /\ \E i \in DOMAIN index : index[i].id = <<"J", "a", "v", "a", "S", "c", "r", "i", "p", "t">>
    /\ Len(selected) = 1
    /\ selected[1].id = <<"J", "a", "v", "a">>
    /\ issues = <<>>

\* kind, then name without regard to case
InListingOrder(a, b) ==
    \/ KindRank(a.kind) < KindRank(b.kind)
    \/ /\ a.kind = b.kind
       /\ localeCompareBase(ToLowerCase(a.name), ToLowerCase(b.name)) <= 0

\* C12: when the first pass that matches anything matches several
\* templates, the query selects nothing and raises one 'ambiguous' issue
\* listing each of them once, by kind and then by case-insensitive name
C12_AmbiguitySurfaced ==
    resolved =>
        \A k \in DOMAIN resolutions :
            LET call == resolutions[k]
                found == FirstMatchingPass(call.directQueries)
            IN  Cardinality(found) > 1 =>
                    /\ IssueReported(k)
                    /\ call.result.type = "ambiguous"
                    /\ call.result.rawQuery = call.rawQuery
                    /\ Len(call.result.matches) = Cardinality(found)
                    /\ {call.result.matches[j] : j \in DOMAIN call.result.matches}
                           = {index[i] : i \in found}
                    /\ \A a, b \in DOMAIN call.result.matches :
                           a < b => InListingOrder(call.result.matches[a], call.result.matches[b])
                    /\ SelectionFromResolvedCalls

\* "ja" lists Java before JavaScript and selects neither
C12_Witness ==
    /\ resolved
    /\ rawQueries = << <<"j", "a">> >>
    /\ selected = <<>>
    /\ Len(issues) = 1
    /\ issues[1].type = "ambiguous"
    /\ Len(issues[1].matches) = 2
    /\ issues[1].matches[1].id = <<"J", "a", "v", "a">>
    /\ issues[1].matches[2].id = <<"J", "a", "v", "a", "S", "c", "r", "i", "p", "t">>

\* the queries of the call that are not blank, in order
NonBlankQueries == SelectSeq(rawQueries, LAMBDA q : Trim(q) # <<>>)

\* C13: a non-blank query none of whose candidate queries equals, is
\* contained in or starts the normalized id or name of any template raises
\* exactly one 'unknown' issue with no matches and the trimmed query as
\* rawQuery, and selects nothing
C13_UnknownQuery ==
    resolved =>
        \A k \in DOMAIN resolutions :
            LET call == resolutions[k]
                dq == call.directQueries
            IN  (\A c \in DOMAIN dq :
                     /\ ExactMatches(dq[c]) = {}
                     /\ SubstringMatches(dq[c]) = {}
                     /\ PrefixMatches(dq[c]) = {})
                => /\ IssueReported(k)
                   /\ Len(issues) = Cardinality(IssueCalls)
                   /\ call.result.type = "unknown"
                   /\ call.result.matches = <<>>
                   /\ k \in DOMAIN NonBlankQueries
                   /\ call.result.rawQuery = Trim(NonBlankQueries[k])
                   /\ SelectionFromResolvedCalls

\* " JS " against an index without JavaScript or Nextjs
C13_Witness ==
    /\ resolved
    /\ rawQueries = << <<" ", "J", "S", " ">> >>
    /\ index # <<>>
    /\ selected = <<>>
    /\ Len(issues) = 1
    /\ issues[1].type = "unknown"
    /\ issues[1].rawQuery = <<"J", "S">>
    /\ issues[1].matches = <<>>

\* the first call that resolved to template t
FirstCallOf(t) ==
    CHOOSE k \in ResolvedCalls :
        /\ resolutions[k].result.template = t
        /\ \A j \in ResolvedCalls : resolutions[j].result.template = t => k <= j

\* C14: blank queries are skipped, selected holds the resolved templates in
\* order of first occurrence, no id twice, and a query resolving to an
\* already selected template adds neither a selection nor an issue
C14_BatchSelection ==
    resolved =>
        /\ Len(resolutions) = Len(NonBlankQueries)
        /\ \A k \in DOMAIN resolutions : resolutions[k].rawQuery = Trim(NonBlankQueries[k])
        /\ {selected[j] : j \in DOMAIN selected}
               = {resolutions[k].result.template : k \in ResolvedCalls}
        /\ \A a, b \in DOMAIN selected :
               a < b => /\ selected[a].id # selected[b].id
                        /\ FirstCallOf(selected[a]) < FirstCallOf(selected[b])
        /\ Len(issues) = Cardinality(IssueCalls)

\* "js" and " JS " both resolve to JavaScript: one selection, no issue
C14_Witness ==
    /\ resolved
    /\ rawQueries = << <<"j", "s">>, <<" ", "J", "S", " ">> >>
    /\ Len(selected) = 1
    /\ selected[1].id = <<"J", "a", "v", "a", "S", "c", "r", "i", "p", "t">>
    /\ issues = <<>>

\* the results of the calls that raised an issue, in call order
IssueResults ==
    SelectSeq([k \in DOMAIN resolutions |-> resolutions[k].result], LAMBDA r : ~IsResolved(r))

\* C16: every call returns; issues holds one issue per non-blank query that
\* did not resolve to a single template, in query order, and the queries
\* that did resolve are selected whatever the others did
C16_FailuresAsData ==
    resolved =>
        /\ Len(resolutions) = Len(NonBlankQueries)
        /\ issues = IssueResults
        /\ \A k \in DOMAIN resolutions :
               \/ /\ IsResolved(resolutions[k].result)
                  /\ Cardinality(FirstMatchingPass(resolutions[k].directQueries)) = 1
                  /\ \E j \in DOMAIN selected : selected[j] = resolutions[k].result.template
               \/ /\ ~IsResolved(resolutions[k].result)
                  /\ Cardinality(FirstMatchingPass(resolutions[k].directQueries)) # 1
                  /\ resolutions[k].result.type \in {"unknown", "ambiguous"}

\* "zig" is unknown and "node", asked after it, is still selected
C16_Witness ==
    /\ resolved
    /\ rawQueries = << <<"z", "i", "g">>, <<"n", "o", "d", "e">> >>
    /\ Len(issues) = 1
    /\ issues[1].rawQuery = <<"z", "i", "g">>
    /\ Len(selected) = 1
    /\ selected[1].id = <<"N", "o", "d", "e">>

\* C23: the first candidate query with any match decides the outcome by
\* its own passes: when it has no exact match, its substring matches resolve
\* the query (one match) or make it ambiguous (several), whatever a later
\* candidate query matches exactly
C23_AliasShadowing ==
    resolved =>
        \A k \in DOMAIN resolutions :
            LET call == resolutions[k]
                dq == call.directQueries
            IN  \A c \in DOMAIN dq :
                    (/\ \A j \in 1..(c - 1) : SubstringMatches(dq[j]) = {}
                     /\ ExactMatches(dq[c]) = {}
                     /\ SubstringMatches(dq[c]) # {})
                    => IF Cardinality(SubstringMatches(dq[c])) = 1
                       THEN /\ call.result =
                                   [template |-> index[CHOOSE i \in SubstringMatches(dq[c]) : TRUE]]
                            /\ \E j \in DOMAIN selected : selected[j] = call.result.template
                       ELSE /\ IssueReported(k)
                            /\ call.result.type = "ambiguous"
                            /\ call.result.query = dq[c]
                            /\ call.result.rawQuery = call.rawQuery
                            /\ {call.result.matches[j] : j \in DOMAIN call.result.matches}
                                   = {index[i] : i \in SubstringMatches(dq[c])}

\* "nodejs" is ambiguous between Nodejs and NodeRED, which contain its alias
\* target "node", although Nodejs is exactly "nodejs"
C23_Witness ==
    /\ resolved
    /\ rawQueries = << <<"n", "o", "d", "e", "j", "s">> >>
    /\ Cardinality(ExactMatches(<<"n", "o", "d", "e", "j", "s">>)) = 1
    /\ ExactMatches(<<"n", "o", "d", "e">>) = {}
    /\ selected = <<>>
    /\ Len(issues) = 1
    /\ issues[1].type = "ambiguous"
    /\ issues[1].query = <<"n", "o", "d", "e">>
    /\ Len(issues[1].matches) = 2

\* C27: when no candidate query has an exact or substring match, none has a
\* prefix match either and the query is unknown with no suggestions; so
\* every resolved query was resolved by an exact or substring pass, and
\* every 'unknown' issue has an empty matches list
C27_FallbackFindsNothing ==
    resolved =>
        /\ \A k \in DOMAIN resolutions :
               LET call == resolutions[k]
                   dq == call.directQueries
               IN  /\ (\A c \in DOMAIN dq : SubstringMatches(dq[c]) = {}) =>
                          /\ \A c \in DOMAIN dq : PrefixMatches(dq[c]) = {}
                          /\ ~IsResolved(call.result)
                          /\ call.result.type = "unknown"
                          /\ call.result.matches = <<>>
                   /\ IsResolved(call.result) =>
                          \E i \in FirstMatchingPass(dq) :
                              /\ FirstMatchingPass(dq) = {i}
                              /\ call.result.template = index[i]
        /\ \A j \in DOMAIN issues : issues[j].type = "unknown" => issues[j].matches = <<>>

\* "js" against an index holding Java and no template containing
\* "javascript" or "js": the fallback is reached and suggests nothing
C27_Witness ==
    /\ resolved
    /\ rawQueries = << <<"j", "s">> >>
    /\ \E i \in DOMAIN index : index[i].id = <<"J", "a", "v", "a">>
    /\ SubstringMatches(<<"j", "a", "v", "a", "s", "c", "r", "i", "p", "t">>) = {}
    /\ SubstringMatches(<<"j", "s">>) = {}
    /\ selected = <<>>
    /\ Len(issues) = 1
    /\ issues[1].type = "unknown"
    /\ issues[1].matches = <<>>

----------------------------------------------------------------------------
(* src/cli/template-resolution.ts: renderTemplateResolutionMessage *)

\* Array.prototype.join(", ")
RECURSIVE JoinComma(_)
JoinComma(names) ==
    IF names = <<>> THEN <<>>
    ELSE IF Len(names) = 1 THEN names[1]
    ELSE names[1] \o <<",", " ">> \o JoinComma(Tail(names))

\* one line of the message
renderIssue(issue) ==
    LET ids == [k \in DOMAIN issue.matches |-> issue.matches[k].id]
    IN  IF issue.type = "ambiguous"
        THEN <<"Template \"">> \o issue.rawQuery
                 \o <<"\" is ambiguous.", " Did you mean", " one of", ":", " ">> \o JoinComma(ids)
        ELSE IF Len(ids) > 0
             THEN <<"Template \"">> \o issue.rawQuery
                      \o <<"\" not found.", " Did you mean", ":", " ">> \o JoinComma(ids)
             ELSE <<"Template \"">> \o issue.rawQuery \o <<"\" not found.">>

renderTemplateResolutionMessage(is) == Join([k \in DOMAIN is |-> renderIssue(is[k])])

----------------------------------------------------------------------------
(* src/index.tsx: runDirectGeneration and fetchTemplatesWithSource;        *)
(* src/app/app.tsx: buildPreview and generateOutput of the wizard          *)

MaxBuilds == 2    \* preview builds started in one wizard session

\* the template repository a generation fetches from
REPOSITORY == TEMPLATES \o <<[meta |-> NextjsMeta, source |-> <<"dist", LF>>]>>

\* the index as buildCacheIndex sorts it
DirectIndex == <<NextjsMeta, NodeMeta, JavaScriptMeta>>

\* template names passed with --template
DirectQueryMenu == {<<"n", "o", "d", "e">>, <<"j", "s">>, <<"n">>, <<"z", "i", "g">>, <<" ">>}

\* the body fetchTemplateSource(path) downloads when GitHub answers
fetchTemplateSource(path) ==
    remote[CHOOSE i \in DOMAIN remote : remote[i].meta.path = path].source

\* the locals of one fetch loop: the templates it iterates over, whether
\* each download so far succeeded, collected and failures
NewBuild(ts) ==
    [templates |-> ts, outcomes |-> <<>>, collected |-> <<>>, failures |-> <<>>,
     finished |-> FALSE]

LoopDone(b) == Len(b.outcomes) = Len(b.templates)

\* mergedContent.endsWith("\n") ? mergedContent : `${mergedContent}\n`
ensureLF(text) ==
    IF text # <<>> /\ text[Len(text)] = LF THEN text ELSE text \o <<LF>>

FetchErrorMessage(failures) ==
    <<"Failed to fetch template source for", ":", " ">> \o JoinComma(failures)

\* the success line of runDirectGeneration for the default output path
SuccessMessage == <<"IgnoreHub: generated ", ".gitignore", " at ", ".gitignore", LF>>

\* the catch block pushing nothing to failures
Fetch_FailureNotRecorded(b, ok) ==
    /\ b \in DOMAIN builds
    /\ ~LoopDone(builds[b])
    /\ LET template == builds[b].templates[Len(builds[b].outcomes) + 1]
       IN  builds' =
               [builds EXCEPT ![b] =
                   IF ok
                   THEN [@ EXCEPT !.outcomes = Append(@, TRUE),
                                  !.collected = Append(@, [meta |-> template,
                                                           source |-> fetchTemplateSource(template.path)])]
                   ELSE [@ EXCEPT !.outcomes = Append(@, FALSE)]]
    /\ UNCHANGED <<mode, pc, optStdout, mergeCalls, written, errorMessage, step,
                   previewStatus, previewContent, failureNames, selectedIds, stdoutPayload>>
    /\ UNCHANGED <<cliVars, cacheVars, moduleVars, wizardVars>>
    /\ UNCHANGED <<mergeVars, textVars, resolverVars>>

\* one iteration of the fetch loop of build b: the download succeeds or throws
Fetch(b, ok) ==
    /\ b \in DOMAIN builds
    /\ ~LoopDone(builds[b])
    /\ LET template == builds[b].templates[Len(builds[b].outcomes) + 1]
       IN  builds' =
               [builds EXCEPT ![b] =
                   IF ok
                   THEN [@ EXCEPT !.outcomes = Append(@, TRUE),
                                  !.collected = Append(@, [meta |-> template,
                                                           source |-> fetchTemplateSource(template.path)])]
                   ELSE [@ EXCEPT !.outcomes = Append(@, FALSE),
                                  !.failures = Append(@, template.name)]]
    /\ UNCHANGED <<mode, pc, optStdout, mergeCalls, written, errorMessage, step,
                   previewStatus, previewContent, failureNames, selectedIds, stdoutPayload>>
    /\ UNCHANGED <<cliVars, cacheVars, moduleVars, wizardVars>>
    /\ UNCHANGED <<mergeVars, textVars, resolverVars>>

\* runDirectGeneration, lines 120-122: resolution issues end the run
ThrowResolutionIssues ==
    /\ mode = "direct"
    /\ resolved
    /\ pc = "start"
    /\ issues # <<>>
    /\ errorMessage' = renderTemplateResolutionMessage(issues)
    /\ pc' = "failed"
    /\ UNCHANGED <<mode, optStdout, builds, mergeCalls, written, step,
                   previewStatus, previewContent, failureNames, selectedIds, stdoutPayload>>
    /\ UNCHANGED <<cliVars, cacheVars, moduleVars, wizardVars>>
    /\ UNCHANGED <<mergeVars, textVars, resolverVars>>

\* the fetch loop started although the resolution raised issues
FetchSelected_IgnoringIssues ==
    /\ mode = "direct"
    /\ resolved
    /\ pc = "start"
    /\ builds' = <<NewBuild(selected)>>
    /\ pc' = "fetching"
    /\ UNCHANGED <<mode, optStdout, mergeCalls, written, errorMessage, step,
                   previewStatus, previewContent, failureNames, selectedIds, stdoutPayload>>
    /\ UNCHANGED <<cliVars, cacheVars, moduleVars, wizardVars>>
    /\ UNCHANGED <<mergeVars, textVars, resolverVars>>

\* runDirectGeneration, line 124: fetchTemplatesWithSource(resolution.selected)
FetchSelected ==
    /\ mode = "direct"
    /\ resolved
    /\ pc = "start"
    /\ issues = <<>>
    /\ builds' = <<NewBuild(selected)>>
    /\ pc' = "fetching"
    /\ UNCHANGED <<mode, optStdout, mergeCalls, written, errorMessage, step,
                   previewStatus, previewContent, failureNames, selectedIds, stdoutPayload>>
    /\ UNCHANGED <<cliVars, cacheVars, moduleVars, wizardVars>>
    /\ UNCHANGED <<mergeVars, textVars, resolverVars>>

\* fetchTemplatesWithSource, lines 79-83: the loop ended with failures
ThrowFetchFailures ==
    /\ mode = "direct"
    /\ pc = "fetching"
    /\ LoopDone(builds[1])
    /\ builds[1].failures # <<>>
    /\ builds' = [builds EXCEPT ![1].finished = TRUE]
    /\ errorMessage' = FetchErrorMessage(builds[1].failures)
    /\ pc' = "failed"
    /\ UNCHANGED <<mode, optStdout, mergeCalls, written, step,
                   previewStatus, previewContent, failureNames, selectedIds, stdoutPayload>>
    /\ UNCHANGED <<cliVars, cacheVars, moduleVars, wizardVars>>
    /\ UNCHANGED <<mergeVars, textVars, resolverVars>>

\* readExistingOutput(options.output), then mergeGitignore on what it read,
\* the fetched templates and the two options
CallMergeGitignore(ts) ==
    /\ existingContent' = file
    /\ templates' = ts
    /\ manualContent' = stripGeneratedBlock(IF file = Null THEN <<>> ELSE file)
    /\ existingRules' = collectRuleSet(manualContent')
    /\ generatedBlock' = buildGeneratedBlock(ts, existingRules', includeWatermark,
                                             useSimpleSectionSeparator)
    /\ merged' = composeOutput(manualContent', generatedBlock')
    /\ previousMerged' = merged
    /\ UNCHANGED <<includeWatermark, useSimpleSectionSeparator>>

\* runDirectGeneration, lines 127-145: readExistingOutput, mergeGitignore,
\* then the write to stdout or to the output file
MergeAndWrite ==
    /\ mode = "direct"
    /\ pc = "fetching"
    /\ LoopDone(builds[1])
    /\ builds[1].failures = <<>>
    /\ CallMergeGitignore(builds[1].collected)
    /\ mergeCalls' = Append(mergeCalls, [build |-> 1, existingContent |-> file,
                                         templates |-> builds[1].collected,
                                         merged |-> merged'])
    /\ IF optStdout
       THEN /\ written' = Append(written, [to |-> "stdout", text |-> ensureLF(merged')])
            /\ file' = file
       ELSE /\ written' = written \o <<[to |-> "file", text |-> merged'],
                                       [to |-> "stdout", text |-> SuccessMessage]>>
            /\ file' = merged'
    /\ builds' = [builds EXCEPT ![1].finished = TRUE]
    /\ pc' = "done"
    /\ UNCHANGED <<mode, optStdout, errorMessage, step,
                   previewStatus, previewContent, failureNames, selectedIds, stdoutPayload>>
    /\ UNCHANGED <<cliVars, cacheVars, moduleVars, wizardVars>>
    /\ UNCHANGED <<edits, runs, remote>>
    /\ UNCHANGED <<textVars, resolverVars>>

\* allTemplates.filter((t) => selectedIds.has(t.id))
selectedTemplates == SelectSeq(index, LAMBDA t : t.id \in selectedIds)

MaxWrites == 2        \* writeFile calls started in one wizard session
MaxIndexLoads == 2    \* loadIndex calls started in one wizard session

\* what loadTemplateIndex may return: the index with both templates, or an
\* index from which JavaScript has been removed upstream
LoadedIndexes == {<<NodeMeta, JavaScriptMeta>>, <<NodeMeta>>}

\* stable insertion of t into a list sorted by name, base sensitivity
RECURSIVE insertByName(_, _)
insertByName(sorted, t) ==
    IF sorted = <<>> THEN <<t>>
    ELSE IF localeCompareBase(t.name, Head(sorted).name) < 0
         THEN <<t>> \o sorted
         ELSE <<Head(sorted)>> \o insertByName(Tail(sorted), t)

\* templates.slice().sort((a, b) => a.name.localeCompare(b.name, ..., base))
RECURSIVE sortByName(_, _)
sortByName(ts, sorted) ==
    IF ts = <<>> THEN sorted ELSE sortByName(Tail(ts), insertByName(sorted, Head(ts)))

\* the keyboard handler reaches the step handlers only when the index is loaded
KeysHandled == mode = "wizard" /\ loadStatus = "ready"

\* shouldExitOrRefresh: Ctrl+R runs invalidatePreview, then loadIndex(true)
\* up to its await
RefreshIndex ==
    /\ mode = "wizard"
    /\ step \in {"select", "preview"}
    /\ loadStatus # "loading"
    /\ ~isWriting
    /\ indexLoads < MaxIndexLoads
    /\ previewStatus' = "idle"
    /\ previewContent' = <<>>
    /\ failureNames' = <<>>
    /\ loadStatus' = "loading"
    /\ indexLoads' = indexLoads + 1
    /\ UNCHANGED <<mode, pc, optStdout, builds, mergeCalls, written, errorMessage, step,
                   selectedIds, stdoutPayload>>
    /\ UNCHANGED <<isWriting, writes>>
    /\ UNCHANGED <<cliVars, cacheVars, moduleVars>>
    /\ UNCHANGED <<mergeVars, textVars, resolverVars>>

\* shouldHandleLoadingState: Enter after a failed load runs loadIndex(false)
RetryLoadIndex ==
    /\ mode = "wizard"
    /\ step # "exited"
    /\ loadStatus = "error"
    /\ indexLoads < MaxIndexLoads
    /\ loadStatus' = "loading"
    /\ indexLoads' = indexLoads + 1
    /\ UNCHANGED runVars
    /\ UNCHANGED <<isWriting, writes>>
    /\ UNCHANGED <<cliVars, cacheVars, moduleVars>>
    /\ UNCHANGED <<mergeVars, textVars, resolverVars>>

\* loadIndex, lines 180-193: loadTemplateIndex answered with the templates ts
LoadIndexDone(ts) ==
    /\ mode = "wizard"
    /\ loadStatus = "loading"
    /\ index' = sortByName(ts, <<>>)
    /\ selectedIds' = {id \in selectedIds : \E k \in DOMAIN ts : ts[k].id = id}
    /\ loadStatus' = "ready"
    /\ UNCHANGED <<mode, pc, optStdout, builds, mergeCalls, written, errorMessage, step,
                   previewStatus, previewContent, failureNames, stdoutPayload>>
    /\ UNCHANGED <<isWriting, writes, indexLoads>>
    /\ UNCHANGED <<cliVars, cacheVars, moduleVars>>
    /\ UNCHANGED <<rawQueries, resolved, resolutions, selected, issues>>
    /\ UNCHANGED <<mergeVars, textVars>>

\* loadIndex, lines 206-210: loadTemplateIndex threw
LoadIndexFailed ==
    /\ mode = "wizard"
    /\ loadStatus = "loading"
    /\ loadStatus' = "error"
    /\ UNCHANGED runVars
    /\ UNCHANGED <<isWriting, writes, indexLoads>>
    /\ UNCHANGED <<cliVars, cacheVars, moduleVars>>
    /\ UNCHANGED <<mergeVars, textVars, resolverVars>>

\* handleSelectToggle: toggleTemplateSelection, then invalidatePreview
ToggleSelection(id) ==
    /\ KeysHandled
    /\ step = "select"
    /\ selectedIds' = IF id \in selectedIds THEN selectedIds \ {id} ELSE selectedIds \cup {id}
    /\ previewStatus' = "idle"
    /\ previewContent' = <<>>
    /\ failureNames' = <<>>
    /\ UNCHANGED <<mode, pc, optStdout, builds, mergeCalls, written, errorMessage, step,
                   stdoutPayload>>
    /\ UNCHANGED <<cliVars, cacheVars, moduleVars, wizardVars>>
    /\ UNCHANGED <<mergeVars, textVars, resolverVars>>

\* buildPreview up to its first await: the loop over the selection of the
\* current render starts
StartBuildPreview ==
    /\ Len(builds) < MaxBuilds
    /\ previewStatus' = "loading"
    /\ failureNames' = <<>>
    /\ builds' = Append(builds, NewBuild(selectedTemplates))

\* handleSelectConfirm: Enter on the select step; with nothing selected
\* only the status line changes
ConfirmSelection ==
    /\ KeysHandled
    /\ step = "select"
    /\ IF selectedIds = {}
       THEN UNCHANGED <<step, previewStatus, failureNames, builds>>
       ELSE /\ step' = "preview"
            /\ StartBuildPreview
    /\ UNCHANGED <<mode, pc, optStdout, mergeCalls, written, errorMessage,
                   previewContent, selectedIds, stdoutPayload>>
    /\ UNCHANGED <<cliVars, cacheVars, moduleVars, wizardVars>>
    /\ UNCHANGED <<mergeVars, textVars, resolverVars>>

\* shouldHandlePreviewStep: Backspace
PreviewBackspace ==
    /\ KeysHandled
    /\ step = "preview"
    /\ step' = "select"
    /\ UNCHANGED <<mode, pc, optStdout, builds, mergeCalls, written, errorMessage,
                   previewStatus, previewContent, failureNames, selectedIds, stdoutPayload>>
    /\ UNCHANGED <<cliVars, cacheVars, moduleVars, wizardVars>>
    /\ UNCHANGED <<mergeVars, textVars, resolverVars>>

\* shouldHandlePreviewStep: Enter on a failed or invalidated preview
RetryPreview ==
    /\ KeysHandled
    /\ step = "preview"
    /\ previewStatus \in {"error", "idle"}
    /\ StartBuildPreview
    /\ UNCHANGED <<mode, pc, optStdout, mergeCalls, written, errorMessage, step,
                   previewContent, selectedIds, stdoutPayload>>
    /\ UNCHANGED <<cliVars, cacheVars, moduleVars, wizardVars>>
    /\ UNCHANGED <<mergeVars, textVars, resolverVars>>

\* buildPreview, lines 240-250: the loop of build b ended with failures
PreviewFailed(b) ==
    /\ mode = "wizard"
    /\ b \in DOMAIN builds
    /\ LoopDone(builds[b])
    /\ ~builds[b].finished
    /\ builds[b].failures # <<>>
    /\ builds' = [builds EXCEPT ![b].finished = TRUE]
    /\ failureNames' = builds[b].failures
    /\ previewStatus' = "error"
    /\ UNCHANGED <<mode, pc, optStdout, mergeCalls, written, errorMessage, step,
                   previewContent, selectedIds, stdoutPayload>>
    /\ UNCHANGED <<cliVars, cacheVars, moduleVars, wizardVars>>
    /\ UNCHANGED <<mergeVars, textVars, resolverVars>>

\* buildPreview, lines 252-264: readExistingOutput, mergeGitignore, preview ready
PreviewReady(b) ==
    /\ mode = "wizard"
    /\ b \in DOMAIN builds
    /\ LoopDone(builds[b])
    /\ ~builds[b].finished
    /\ builds[b].failures = <<>>
    /\ CallMergeGitignore(builds[b].collected)
    /\ mergeCalls' = Append(mergeCalls, [build |-> b, existingContent |-> file,
                                         templates |-> builds[b].collected,
                                         merged |-> merged'])
    /\ previewContent' = merged'
    /\ builds' = [builds EXCEPT ![b].finished = TRUE]
    /\ previewStatus' = "ready"
    /\ UNCHANGED <<mode, pc, optStdout, written, errorMessage, step,
                   failureNames, selectedIds, stdoutPayload>>
    /\ UNCHANGED <<cliVars, cacheVars, moduleVars, wizardVars>>
    /\ UNCHANGED <<file, edits, runs, remote>>
    /\ UNCHANGED <<textVars, resolverVars>>

\* shouldHandlePreviewStep: Enter on a ready preview runs generateOutput, to
\* its end with --stdout and up to await writeFile(...) otherwise
GenerateOutput ==
    /\ KeysHandled
    /\ step = "preview"
    /\ previewStatus = "ready"
    /\ IF optStdout
       THEN /\ stdoutPayload' = previewContent
            /\ step' = "done"
            /\ isWriting' = FALSE
            /\ UNCHANGED writes
       ELSE /\ Len(writes) < MaxWrites
            /\ writes' = Append(writes, [text |-> previewContent, state |-> "pending"])
            /\ isWriting' = TRUE
            /\ UNCHANGED <<stdoutPayload, step>>
    /\ UNCHANGED <<mode, pc, optStdout, builds, mergeCalls, written, errorMessage,
                   previewStatus, previewContent, failureNames, selectedIds>>
    /\ UNCHANGED <<loadStatus, indexLoads>>
    /\ UNCHANGED <<cliVars, cacheVars, moduleVars>>
    /\ UNCHANGED <<mergeVars, textVars, resolverVars>>

\* generateOutput, lines 294-303: writeFile resolved
WriteSucceeded(w) ==
    /\ mode = "wizard"
    /\ w \in DOMAIN writes
    /\ writes[w].state = "pending"
    /\ writes' = [writes EXCEPT ![w].state = "written"]
    /\ file' = writes[w].text
    /\ written' = Append(written, [to |-> "file", text |-> writes[w].text])
    /\ step' = "done"
    /\ isWriting' = FALSE
    /\ UNCHANGED <<mode, pc, optStdout, builds, mergeCalls, errorMessage,
                   previewStatus, previewContent, failureNames, selectedIds, stdoutPayload>>
    /\ UNCHANGED <<loadStatus, indexLoads>>
    /\ UNCHANGED <<cliVars, cacheVars, moduleVars>>
    /\ UNCHANGED <<edits, runs, remote>>
    /\ UNCHANGED <<callVars, textVars, resolverVars>>

\* generateOutput, lines 297-303: writeFile rejected
WriteFailed(w) ==
    /\ mode = "wizard"
    /\ w \in DOMAIN writes
    /\ writes[w].state = "pending"
    /\ writes' = [writes EXCEPT ![w].state = "failed"]
    /\ previewStatus' = "error"
    /\ isWriting' = FALSE
    /\ UNCHANGED <<mode, pc, optStdout, builds, mergeCalls, written, errorMessage, step,
                   previewContent, failureNames, selectedIds, stdoutPayload>>
    /\ UNCHANGED <<loadStatus, indexLoads>>
    /\ UNCHANGED <<cliVars, cacheVars, moduleVars>>
    /\ UNCHANGED <<mergeVars, textVars, resolverVars>>

\* exitApp on the done step: the renderer is destroyed, the payload printed
ExitApp ==
    /\ mode = "wizard"
    /\ step = "done"
    /\ step' = "exited"
    /\ written' = IF stdoutPayload = Null THEN written
                  ELSE Append(written, [to |-> "stdout", text |-> ensureLF(stdoutPayload)])
    /\ UNCHANGED <<mode, pc, optStdout, builds, mergeCalls, errorMessage,
                   previewStatus, previewContent, failureNames, selectedIds, stdoutPayload>>
    /\ UNCHANGED <<cliVars, cacheVars, moduleVars, wizardVars>>
    /\ UNCHANGED <<mergeVars, textVars, resolverVars>>

\* a direct generation of requested names, or a wizard session whose first
\* loadIndex call is in flight, on an output file that is missing or holds
\* one manual rule
InitGenerate ==
    /\ file \in {Null, <<"dist">>}
    /\ remote = REPOSITORY
    /\ InitCall
    /\ InitText
    /\ rawQueries = <<>>
    /\ resolved = FALSE
    /\ resolutions = <<>>
    /\ selected = <<>>
    /\ issues = <<>>
    /\ mode \in {"direct", "wizard"}
    /\ index = IF mode = "direct" THEN DirectIndex ELSE <<>>
    /\ pc = "start"
    /\ optStdout \in BOOLEAN
    /\ builds = <<>>
    /\ mergeCalls = <<>>
    /\ written = <<>>
    /\ errorMessage = Null
    /\ step = "select"
    /\ previewStatus = "idle"
    /\ previewContent = <<>>
    /\ failureNames = <<>>
    /\ selectedIds = {}
    /\ stdoutPayload = Null
    /\ InitCli
    /\ InitCache
    /\ InitModule
    /\ loadStatus = "loading"
    /\ isWriting = FALSE
    /\ writes = <<>>
    /\ indexLoads = IF mode = "wizard" THEN 1 ELSE 0

NextGenerate ==
    \/ \E q \in DirectQueryMenu : mode = "direct" /\ AddQuery(q)
    \/ mode = "direct" /\ Resolve
    \/ ThrowResolutionIssues
    \/ FetchSelected
    \/ \E b \in 1..MaxBuilds, ok \in BOOLEAN : Fetch(b, ok)
    \/ ThrowFetchFailures
    \/ MergeAndWrite
    \/ RetryLoadIndex
    \/ RefreshIndex
    \/ \E ts \in LoadedIndexes : LoadIndexDone(ts)
    \/ LoadIndexFailed
    \/ \E i \in DOMAIN index : ToggleSelection(index[i].id)
    \/ ConfirmSelection
    \/ PreviewBackspace
    \/ RetryPreview
    \/ \E b \in 1..MaxBuilds : PreviewFailed(b)
    \/ \E b \in 1..MaxBuilds : PreviewReady(b)
    \/ GenerateOutput
    \/ \E w \in 1..MaxWrites : WriteSucceeded(w)
    \/ \E w \in 1..MaxWrites : WriteFailed(w)
    \/ ExitApp

SpecGenerate == InitGenerate /\ [][NextGenerate]_vars

----------------------------------------------------------------------------
(* Properties of a generation *)

\* C17: once the resolution of a direct generation has raised an issue,
\* no body is fetched, mergeGitignore is not called, nothing is written to
\* the output file or to stdout, and the run can only end in the one error
\* whose message has a line for every issue, in order
C17_AllOrNothingResolution ==
    (mode = "direct" /\ resolved /\ issues # <<>>) =>
        /\ builds = <<>>
        /\ mergeCalls = <<>>
        /\ written = <<>>
        /\ file = Null \/ file = <<"dist">>
        /\ pc \in {"start", "failed"}
        /\ pc = "failed" =>
               LET lines == Split(errorMessage)
               IN  /\ Len(lines) = Len(issues)
                   /\ \A k \in DOMAIN issues :
                          /\ StartsWith(lines[k], <<"Template \"">> \o issues[k].rawQuery)
                          /\ \A j \in DOMAIN issues[k].matches :
                                 Includes(lines[k], issues[k].matches[j].id)

\* "node" resolves, "n" is ambiguous and "zig" is unknown: the run fails
\* on both issues and fetches nothing
C17_Witness ==
    /\ mode = "direct"
    /\ rawQueries = << <<"n">>, <<"z", "i", "g">> >>
    /\ pc = "failed"
    /\ Len(issues) = 2
    /\ Len(Split(errorMessage)) = 2
    /\ builds = <<>>
    /\ written = <<>>

\* the names of the templates of build b whose download failed, in order
FailedNames(b) ==
    LET failedAt == SelectSeq([i \in 1..Len(b.outcomes) |-> i], LAMBDA i : ~b.outcomes[i])
    IN  [k \in DOMAIN failedAt |-> b.templates[failedAt[k]].name]

OutputStarts == Len(writes') > Len(writes) \/ stdoutPayload' # stdoutPayload

\* the writeFile call w completes with the given outcome
WriteCompletes(w, outcome) ==
    /\ w \in DOMAIN writes
    /\ writes[w].state = "pending"
    /\ writes'[w].state = outcome

\* C28: the wizard starts a write only on Enter in the preview step with a
\* ready preview and writes the current previewContent; the file changes
\* and step becomes "done" only when a write succeeded; a failed write
\* leaves step = "preview" with previewStatus = "error"
C28_WriteGating ==
    [][mode = "wizard" =>
          /\ OutputStarts =>
                 /\ step = "preview"
                 /\ previewStatus = "ready"
                 /\ IF optStdout THEN stdoutPayload' = previewContent
                    ELSE writes'[Len(writes')] = [text |-> previewContent, state |-> "pending"]
          /\ file' # file =>
                 \E w \in DOMAIN writes :
                     WriteCompletes(w, "written") /\ file' = writes[w].text
          /\ (step # "done" /\ step' = "done") =>
                 \/ optStdout /\ stdoutPayload' # Null
                 \/ \E w \in DOMAIN writes : WriteCompletes(w, "written")
          /\ (\E w \in DOMAIN writes : WriteCompletes(w, "failed")) =>
                 /\ step' = "preview"
                 /\ previewStatus' = "error"]_vars

\* the selected templates with the bodies the repository serves for them
selectedWithSource ==
    [k \in DOMAIN selectedTemplates |->
        [meta |-> selectedTemplates[k], source |-> fetchTemplateSource(selectedTemplates[k].path)]]

\* C29: before anything is written, a ready preview shows the merge of
\* exactly the currently selected templates into the output file
C29_NoStalePreview ==
    (mode = "wizard" /\ step \in {"select", "preview"} /\ previewStatus = "ready") =>
        previewContent = mergeGitignore(file, selectedWithSource, includeWatermark,
                                        useSimpleSectionSeparator)

\* C30: Enter on the select step with nothing selected leaves the step, and
\* a preview build or a write starts only while a template is selected
C30_NeverFromEmptySelection ==
    [][mode = "wizard" =>
          /\ (ConfirmSelection /\ selectedIds = {}) => step' = "select"
          /\ Len(builds') > Len(builds) => selectedIds # {}
          /\ OutputStarts => selectedIds # {}]_vars

----------------------------------------------------------------------------
(* src/cli/parse-args.ts: parseCliOptions *)

MaxArgs == 3    \* arguments on the command line

\* String.prototype.split(",")
SplitComma(s) ==
    LET commas == SelectSeq(Indices(s), LAMBDA i : s[i] = ",")
        n == Len(commas)
    IN  [k \in 1..(n + 1) |->
            SubSeq(s, IF k = 1 THEN 1 ELSE commas[k - 1] + 1,
                      IF k = n + 1 THEN Len(s) ELSE commas[k] - 1)]

\* the trimmed, non-empty pieces of values are pushed to target
addTemplateValues(values, target) ==
    LET pieces == SplitComma(values)
    IN  target \o SelectSeq([k \in DOMAIN pieces |-> Trim(pieces[k])], LAMBDA t : Len(t) > 0)

\* getRequiredValue returns argv[index + 1] unless it is missing, empty or
\* starts with "--"
hasRequiredValue(args, i) ==
    /\ i + 1 <= Len(args)
    /\ args[i + 1] # <<>>
    /\ ~StartsWith(args[i + 1], <<"-", "-">>)

\* resolve(process.cwd(), value) for a relative value
resolvePath(value) == <<"cwd", "/">> \o value

Thrown(message) == [error |-> message]
IsThrown(r) == "error" \in DOMAIN r

MissingValue(flag) == <<"Missing value for ", "-", "-">> \o flag
UnknownArgument(arg) == <<"Unknown argument", ":", " ">> \o arg

\* the locals of parseCliOptions before the loop, lines 74-83
InitialLocals ==
    [output |-> resolvePath(<<".gitignore">>), refresh |-> FALSE, stdout |-> FALSE,
     templates |-> <<>>, auto |-> FALSE, nonInteractive |-> FALSE,
     includeWatermark |-> TRUE, useSimpleSectionSeparator |-> FALSE,
     showHelp |-> FALSE, showVersion |-> FALSE]

\* the case setting the separator and leaving the watermark on
simpleSeparation_WatermarkKept(o) ==
    [o EXCEPT !.useSimpleSectionSeparator = TRUE]

\* case "-s", case "--simple-sepration", lines 118-122
simpleSeparation(o) ==
    [o EXCEPT !.useSimpleSectionSeparator = TRUE, !.includeWatermark = FALSE]

\* the loop of parseCliOptions from argument i on, lines 85-141; the result
\* is the locals after the loop, or what was thrown
RECURSIVE parseLoop(_, _, _)
parseLoop(args, i, o) ==
    IF i > Len(args) THEN o
    ELSE LET arg == args[i]
         IN  IF arg = <<>> THEN parseLoop(args, i + 1, o)
             ELSE IF ~StartsWith(arg, <<"-">>) THEN Thrown(UnknownArgument(arg))
             ELSE IF arg \in {<<"-", "h">>, <<"-", "-", "help">>}
                  THEN parseLoop(args, i + 1, [o EXCEPT !.showHelp = TRUE])
             ELSE IF arg \in {<<"-", "v">>, <<"-", "-", "version">>}
                  THEN parseLoop(args, i + 1, [o EXCEPT !.showVersion = TRUE])
             ELSE IF arg = <<"-", "-", "refresh">>
                  THEN parseLoop(args, i + 1, [o EXCEPT !.refresh = TRUE])
             ELSE IF arg = <<"-", "-", "stdout">>
                  THEN parseLoop(args, i + 1, [o EXCEPT !.stdout = TRUE])
             ELSE IF arg \in {<<"-", "a">>, <<"-", "-", "auto">>}
                  THEN parseLoop(args, i + 1, [o EXCEPT !.auto = TRUE])
             ELSE IF arg = <<"-", "-", "no-interactive">>
                  THEN parseLoop(args, i + 1, [o EXCEPT !.nonInteractive = TRUE])
             ELSE IF arg \in {<<"-", "s">>, <<"-", "-", "simple-sepration">>}
                  THEN parseLoop(args, i + 1, simpleSeparation(o))
             ELSE IF arg \in {<<"-", "o">>, <<"-", "-", "output">>}
                  THEN IF hasRequiredValue(args, i)
                       THEN parseLoop(args, i + 2, [o EXCEPT !.output = resolvePath(args[i + 1])])
                       ELSE Thrown(MissingValue(<<"output">>))
             ELSE IF arg \in {<<"-", "t">>, <<"-", "-", "template">>}
                  THEN IF hasRequiredValue(args, i)
                       THEN parseLoop(args, i + 2,
                                [o EXCEPT !.templates = addTemplateValues(args[i + 1], @)])
                       ELSE Thrown(MissingValue(<<"template">>))
             ELSE IF \/ StartsWith(arg, <<"-", "t", "=">>)
                     \/ StartsWith(arg, <<"-", "-", "template", "=">>)
                  THEN IF Len(Drop(arg, IndexOf(arg, <<"=">>))) = 0
                       THEN Thrown(MissingValue(<<"template">>))
                       ELSE parseLoop(args, i + 1,
                                [o EXCEPT !.templates =
                                     addTemplateValues(Drop(arg, IndexOf(arg, <<"=">>)), @)])
             ELSE Thrown(UnknownArgument(arg))

\* parseCliOptions(argv): { options, showHelp, showVersion }, or the error thrown
parseCliOptions(args) ==
    LET o == parseLoop(args, 1, InitialLocals)
    IN  IF IsThrown(o) THEN o
        ELSE [options |-> [output |-> o.output, refresh |-> o.refresh, stdout |-> o.stdout,
                           templates |-> o.templates, auto |-> o.auto,
                           nonInteractive |-> o.nonInteractive,
                           includeWatermark |-> o.includeWatermark,
                           useSimpleSectionSeparator |-> o.useSimpleSectionSeparator],
              showHelp |-> o.showHelp, showVersion |-> o.showVersion]

\* what a user may type as one argument
ArgMenu ==
    {<<"-", "s">>, <<"-", "-", "simple-sepration">>, <<"-", "-", "stdout">>, <<"-", "a">>,
     <<"-", "o">>, <<"-", "t">>, <<"-", "t", "=", "n", "o", "d", "e">>,
     <<"n", "o", "d", "e", ",", " ", "j", "s">>, <<>>}

\* the shell hands one more argument to the process
TypeArgument(a) ==
    /\ parsed = NotCalled
    /\ Len(argv) < MaxArgs
    /\ argv' = Append(argv, a)
    /\ UNCHANGED parsed
    /\ UNCHANGED <<runVars, cacheVars, moduleVars, wizardVars>>
    /\ UNCHANGED <<mergeVars, textVars, resolverVars>>

\* main: parseCliOptions(process.argv.slice(2))
ParseCliOptions ==
    /\ parsed = NotCalled
    /\ parsed' = parseCliOptions(argv)
    /\ UNCHANGED argv
    /\ UNCHANGED <<runVars, cacheVars, moduleVars, wizardVars>>
    /\ UNCHANGED <<mergeVars, textVars, resolverVars>>

InitArgs ==
    /\ file = Null
    /\ remote = <<>>
    /\ InitCall
    /\ InitText
    /\ InitResolver
    /\ InitShell

NextCli ==
    \/ \E a \in ArgMenu : TypeArgument(a)
    \/ ParseCliOptions

SpecCli == InitArgs /\ [][NextCli]_vars

----------------------------------------------------------------------------
(* Properties of the command line *)

SimpleFlags == {<<"-", "s">>, <<"-", "-", "simple-sepration">>}

\* C19: for every accepted argument list includeWatermark is the negation
\* of useSimpleSectionSeparator, the pair is (FALSE, TRUE) when -s or
\* --simple-sepration is in the list, wherever it is, and (TRUE, FALSE)
\* when it is not
C19_FlagCoupling ==
    (parsed # NotCalled /\ ~IsThrown(parsed)) =>
        /\ parsed.options.includeWatermark = ~parsed.options.useSimpleSectionSeparator
        /\ parsed.options.useSimpleSectionSeparator
               = (\E i \in DOMAIN argv : argv[i] \in SimpleFlags)

\* the flags that take the next argument as their value
ValueFlags == {<<"-", "o">>, <<"-", "-", "output">>, <<"-", "t">>, <<"-", "-", "template">>}

\* argument i is read as an option, not as the value of the option before it
RECURSIVE IsOptionPosition(_, _)
IsOptionPosition(args, i) ==
    \/ i = 1
    \/ ~(IsOptionPosition(args, i - 1) /\ args[i - 1] \in ValueFlags)

\* C19 amended: for every accepted argument list includeWatermark is the
\* negation of useSimpleSectionSeparator, and the pair is (FALSE, TRUE)
\* exactly when -s or --simple-sepration stands in the list as an option,
\* at whatever position, and not as the value of a preceding -o or -t
C19_FlagCouplingAsOption ==
    (parsed # NotCalled /\ ~IsThrown(parsed)) =>
        /\ parsed.options.includeWatermark = ~parsed.options.useSimpleSectionSeparator
        /\ parsed.options.useSimpleSectionSeparator
               = (\E i \in DOMAIN argv : IsOptionPosition(argv, i) /\ argv[i] \in SimpleFlags)

\* -s behind two other options
C19_Witness ==
    /\ argv = << <<"-", "a">>, <<"-", "t", "=", "n", "o", "d", "e">>, <<"-", "s">> >>
    /\ parsed # NotCalled
    /\ ~IsThrown(parsed)
    /\ parsed.options.auto
    /\ parsed.options.templates = << <<"n", "o", "d", "e">> >>
    /\ ~parsed.options.includeWatermark
    /\ parsed.options.useSimpleSectionSeparator

----------------------------------------------------------------------------
(* src/data/cache-store.ts (app/steps/PreviewStep.tsx, lines 498-605):     *)
(* readCacheIndex, refreshTemplateIndex and loadTemplateIndex              *)

MaxLoads == 2    \* loadTemplateIndex calls of one session

\* a file holding text that is not JSON, and one holding JSON.stringify(value)
TextFile == [exists |-> TRUE, json |-> FALSE]
JsonFile(value) == [exists |-> TRUE, json |-> TRUE, value |-> value]

\* a CacheIndex built from the given templates
CacheIndexOf(ts, ref) == [fetchedAt |-> "fetchedAt", sourceRef |-> ref, templates |-> ts]

\* buildCacheIndex(await fetchTemplatePaths()) when GitHub answers
FetchedIndex == CacheIndexOf(DirectIndex, "main")

\* what may lie at the cache path: nothing, a truncated file, an index of
\* another source ref, an index of an earlier run, the current index
CacheFiles ==
    {MissingFile, TextFile, JsonFile(CacheIndexOf(<<NodeMeta>>, "master")),
     JsonFile(CacheIndexOf(<<NodeMeta>>, "main")), JsonFile(FetchedIndex)}

isCacheIndex(value) == value.sourceRef = "main"

Returned(value) == [value |-> value]
NoCache == [null |-> TRUE]
SyntaxError == <<"SyntaxError">>
NetworkError == <<"fetch failed">>

\* readCacheIndex, lines 548-562: null on ENOENT and on JSON that is not a
\* CacheIndex; any other error, JSON.parse's included, is thrown on
readCacheIndex(f) ==
    IF ~f.exists THEN Returned(NoCache)
    ELSE IF ~f.json THEN Thrown(SyntaxError)
    ELSE IF ~isCacheIndex(f.value) THEN Returned(NoCache)
    ELSE Returned(f.value)

\* loadTemplateIndex(refresh) on cache file f while GitHub answers or not:
\* its outcome, the cache file it leaves, the requests it made
loadTemplateIndex(refresh, f, answers) ==
    LET cached == readCacheIndex(f)
    IN  IF ~refresh /\ IsThrown(cached)
        THEN [outcome |-> cached, file |-> f, requests |-> 0]
        ELSE IF ~refresh /\ cached.value # NoCache
        THEN [outcome |-> Returned([index |-> cached.value, source |-> "cache"]),
              file |-> f, requests |-> 0]
        ELSE IF answers
        THEN [outcome |-> Returned([index |-> FetchedIndex, source |-> "network"]),
              file |-> JsonFile(FetchedIndex), requests |-> 1]
        ELSE IF IsThrown(cached)
        THEN [outcome |-> cached, file |-> f, requests |-> 1]
        ELSE IF cached.value # NoCache
        THEN [outcome |-> Returned([index |-> cached.value, source |-> "cache",
                                    warning |-> <<"Network refresh failed, using cache. ">>
                                                    \o NetworkError]),
              file |-> f, requests |-> 1]
        ELSE [outcome |-> Thrown(<<"Failed to load gitignore index. ">> \o NetworkError),
              file |-> f, requests |-> 1]

\* the cache file is deleted, truncated or replaced outside the program
CacheFileChanges(f) ==
    /\ loads < MaxLoads
    /\ f # cacheFile
    /\ cacheFile' = f
    /\ UNCHANGED <<network, loads, loadCall, loadResult>>
    /\ UNCHANGED <<runVars, cliVars, moduleVars, wizardVars>>
    /\ UNCHANGED <<mergeVars, textVars, resolverVars>>

\* GitHub becomes unreachable, or reachable again
NetworkChanges ==
    /\ loads < MaxLoads
    /\ network' = IF network = "up" THEN "down" ELSE "up"
    /\ UNCHANGED <<cacheFile, loads, loadCall, loadResult>>
    /\ UNCHANGED <<runVars, cliVars, moduleVars, wizardVars>>
    /\ UNCHANGED <<mergeVars, textVars, resolverVars>>

\* runDirectGeneration or the wizard calls loadTemplateIndex(refresh)
LoadTemplateIndex(refresh) ==
    /\ loads < MaxLoads
    /\ loadCall' = [refresh |-> refresh, answers |-> (network = "up"), fileBefore |-> cacheFile,
                    done |-> loadTemplateIndex(refresh, cacheFile, network = "up")]
    /\ loadResult' = loadCall'.done.outcome
    /\ cacheFile' = loadCall'.done.file
    /\ loads' = loads + 1
    /\ UNCHANGED network
    /\ UNCHANGED <<runVars, cliVars, moduleVars, wizardVars>>
    /\ UNCHANGED <<mergeVars, textVars, resolverVars>>

InitLoad ==
    /\ file = Null
    /\ remote = <<>>
    /\ InitCall
    /\ InitText
    /\ InitResolver
    /\ InitShell

NextLoad ==
    \/ \E f \in CacheFiles : CacheFileChanges(f)
    \/ NetworkChanges
    \/ \E refresh \in BOOLEAN : LoadTemplateIndex(refresh)

SpecLoad == InitLoad /\ [][NextLoad]_vars

----------------------------------------------------------------------------
(* Properties of the index load *)

\* the file holds a valid cached index
ValidCache(f) == f.exists /\ f.json /\ f.value.sourceRef = "main"

\* C20: without refresh a valid cache is returned with no request made;
\* with refresh, or without a valid cache, the network is asked first and
\* its index, when it answers, is cached and returned; when it does not
\* answer a valid cache is returned with a warning, and an error is raised
\* only when there is no valid cache
C20_LoadTemplateIndex ==
    loads > 0 =>
        LET valid == ValidCache(loadCall.fileBefore)
            outcome == loadCall.done.outcome
        IN  /\ (~loadCall.refresh /\ valid) =>
                   /\ ~IsThrown(outcome)
                   /\ outcome.value.source = "cache"
                   /\ outcome.value.index = loadCall.fileBefore.value
                   /\ "warning" \notin DOMAIN outcome.value
                   /\ loadCall.done.requests = 0
            /\ (loadCall.refresh \/ ~valid) =>
                   /\ loadCall.done.requests = 1
                   /\ loadCall.answers =>
                          /\ ~IsThrown(outcome)
                          /\ outcome.value.source = "network"
                          /\ outcome.value.index = FetchedIndex
                          /\ loadCall.done.file = JsonFile(FetchedIndex)
                   /\ (~loadCall.answers /\ valid) =>
                          /\ ~IsThrown(outcome)
                          /\ outcome.value.source = "cache"
                          /\ outcome.value.index = loadCall.fileBefore.value
                          /\ "warning" \in DOMAIN outcome.value
                   /\ (~loadCall.answers /\ ~valid) => IsThrown(outcome)
            /\ IsThrown(outcome) => ~valid

----------------------------------------------------------------------------
(* Call sites of mergeGitignore and resolveTemplateQueries: index.tsx      *)
(* (runDirectGeneration) and app.tsx (buildPreview), sharing the modules   *)
(* merge-gitignore.ts and template-resolution.ts                           *)

MaxCalls == 3    \* calls made by the call sites together

CallSites == {"runDirectGeneration", "buildPreview"}

\* String.prototype.replace with the global GENERATED_BLOCK_PATTERN: the
\* search starts at index 0 whatever lastIndex the RegExp object holds, and
\* the search that finds no further match leaves lastIndex 0
replaceWithPattern_LastIndexKept(s, lastIndex) ==
    LET start == IF lastIndex < Len(s) THEN lastIndex ELSE Len(s)
        b == IndexOf(Drop(s, start), GENERATED_BLOCK_START)
    IN  [text |-> SubSeq(s, 1, start) \o replaceGeneratedBlocks(Drop(s, start)),
         lastIndex |-> IF b = 0 THEN 0 ELSE start + b - 1 + Len(GENERATED_BLOCK_START)]

replaceWithPattern(s, lastIndex) ==
    LET start == 0
    IN  [text |-> SubSeq(s, 1, start) \o replaceGeneratedBlocks(Drop(s, start)),
         lastIndex |-> 0]

\* mergeGitignore run while the module's RegExp object holds lastIndex: its
\* return value and the lastIndex it leaves
mergeGitignoreWith(existing, ts, watermark, simple, lastIndex) ==
    LET source == IF existing = Null THEN <<>> ELSE existing
        replaced == replaceWithPattern(normalizeNewlines(source), lastIndex)
        manual == TrimEnd(replaced.text)
        rules == collectRuleSet(manual)
        block == buildGeneratedBlock(ts, rules, watermark, simple)
    IN  [result |-> composeOutput(manual, block), lastIndex |-> replaced.lastIndex]

\* output files the call sites read: a generated block alone, and manual
\* rules around a generated block
SiteFiles ==
    {GENERATED_BLOCK_START \o <<LF, "dist", LF>> \o GENERATED_BLOCK_END \o <<LF>>,
     <<"dist", LF>> \o GENERATED_BLOCK_START \o <<LF, "node_modules/", LF>>
         \o GENERATED_BLOCK_END \o <<LF, "#", LF>>}

SiteQueryLists == {<<<<"n", "o", "d", "e">>, <<"j", "s">>, <<"N", "o", "d", "e">>>>,
                   <<<<"n">>, <<"j", "s">>>>}

\* a call site calls mergeGitignore
CallSiteMerge(site, existing, ts, options) ==
    /\ Len(callLog) < MaxCalls
    /\ callLog' = Append(callLog,
            [site |-> site, fn |-> "mergeGitignore",
             args |-> [existingContent |-> existing, templates |-> ts,
                       includeWatermark |-> options[1],
                       useSimpleSectionSeparator |-> options[2]],
             returned |-> mergeGitignoreWith(existing, ts, options[1], options[2],
                                             patternLastIndex)])
    /\ patternLastIndex' = callLog'[Len(callLog')].returned.lastIndex
    /\ UNCHANGED tree
    /\ UNCHANGED <<runVars, cliVars, cacheVars, wizardVars>>
    /\ UNCHANGED <<mergeVars, textVars, resolverVars>>

\* a call site calls resolveTemplateQueries
CallSiteResolve(site, ts, queries) ==
    /\ Len(callLog) < MaxCalls
    /\ callLog' = Append(callLog,
            [site |-> site, fn |-> "resolveTemplateQueries",
             args |-> [templates |-> ts, rawQueries |-> queries],
             returned |-> resolveTemplateQueries(ts, queries)])
    /\ UNCHANGED <<patternLastIndex, tree>>
    /\ UNCHANGED <<runVars, cliVars, cacheVars, wizardVars>>
    /\ UNCHANGED <<mergeVars, textVars, resolverVars>>

InitCalls ==
    /\ file = Null
    /\ remote = <<>>
    /\ InitCall
    /\ InitText
    /\ InitResolver
    /\ InitShell

NextCalls ==
    \/ \E site \in CallSites, existing \in SiteFiles, options \in CliOptionPairs :
           CallSiteMerge(site, existing, TEMPLATES, options)
    \/ \E site \in CallSites, queries \in SiteQueryLists :
           CallSiteResolve(site, DirectIndex, queries)

SpecCalls == InitCalls /\ [][NextCalls]_vars

----------------------------------------------------------------------------
(* Properties of interleaved calls *)

----------------------------------------------------------------------------
(* The git tree of github/gitignore and the index built from it *)

MaxTree == 3    \* entries of the git tree

Blob(path) == [path |-> path, type |-> "blob"]

\* entries the tree may hold: root templates, Global templates (one with the
\* name of a root template), a directory, and files that are no templates
TreeMenu ==
    {Blob(<<"N", "o", "d", "e", ".gitignore">>),
     Blob(<<"J", "a", "v", "a", ".gitignore">>),
     Blob(GlobalPrefix \o <<"N", "o", "d", "e", ".gitignore">>),
     Blob(GlobalPrefix \o <<"m", "a", "c", "O", "S", ".gitignore">>),
     Blob(<<"c", "o", "m", "m", "u", "n", "i", "t", "y", "/", "N", "o", "d", "e", ".gitignore">>),
     Blob(<<"R", "E", "A", "D", "M", "E", ".md">>),
     [path |-> <<"G", "l", "o", "b", "a", "l">>, type |-> "tree"]}

\* a file or directory is committed to the repository; paths of a tree are distinct
CommitEntry(e) ==
    /\ Len(tree) < MaxTree
    /\ \A k \in DOMAIN tree : tree[k].path # e.path
    /\ tree' = Append(tree, e)
    /\ UNCHANGED <<patternLastIndex, callLog>>
    /\ UNCHANGED <<runVars, cliVars, cacheVars, wizardVars>>
    /\ UNCHANGED <<mergeVars, textVars, resolverVars>>

\* refreshTemplateIndex: buildCacheIndex(await fetchTemplatePaths())
RefreshTemplateIndex ==
    /\ index' = buildCacheIndex(fetchTemplatePaths(tree)).templates
    /\ UNCHANGED <<rawQueries, resolved, resolutions, selected, issues>>
    /\ UNCHANGED moduleVars
    /\ UNCHANGED <<runVars, cliVars, cacheVars, wizardVars>>
    /\ UNCHANGED <<mergeVars, textVars>>

InitTree ==
    /\ file = Null
    /\ remote = <<>>
    /\ InitCall
    /\ InitText
    /\ InitResolver
    /\ InitShell

NextTree ==
    \/ \E e \in TreeMenu : CommitEntry(e)
    \/ RefreshTemplateIndex

SpecTree == InitTree /\ [][NextTree]_vars

----------------------------------------------------------------------------
(* Properties of a built index *)

IdsUnique == \A i, j \in DOMAIN index : index[i].id = index[j].id => i = j

\* root templates have a bare id, Global templates a prefixed id and kind "global"
IdShapes ==
    \A i \in DOMAIN index :
        IF StartsWith(index[i].path, GlobalPrefix)
        THEN StartsWith(index[i].id, GlobalPrefix) /\ index[i].kind = "global"
        ELSE "/" \notin Range(index[i].id) /\ index[i].kind # "global"

\* C22 as stated: in an index built from template paths every record's name
\* equals its id, ids are unique, root ids are bare, and Global templates
\* have an id prefixed with "Global/" and kind "global"
C22_NameEqualsId ==
    /\ \A i \in DOMAIN index : index[i].name = index[i].id
    /\ IdsUnique
    /\ IdShapes

\* C22 amended: the name equals the id for root templates and is the id
\* without its "Global/" prefix for Global templates; ids are unique, root
\* ids are bare, Global ids are prefixed and of kind "global"
C22_NameFromId ==
    /\ \A i \in DOMAIN index :
           IF StartsWith(index[i].path, GlobalPrefix)
           THEN index[i].id = GlobalPrefix \o index[i].name
           ELSE index[i].name = index[i].id
    /\ IdsUnique
    /\ IdShapes

\* an index holding a root template and a Global template of the same name
C22_Witness ==
    \E i, j \in DOMAIN index :
        /\ index[i].kind = "global"
        /\ index[j].kind # "global"
        /\ index[i].name = index[j].name
        /\ index[i].id # index[j].id

----------------------------------------------------------------------------
(* Properties of the sections of the generated block *)

\* the lines of the body of the k-th template of the last call
BodyLines(k) == Split(normalizeNewlines(templates[k].source))

\* line i of template k is a rule whose trimmed value is neither a manual
\* rule nor the value of a rule line before it in this call
FreshRule(k, i) ==
    LET line == BodyLines(k)[i]
    IN  /\ isRuleLine(line)
        /\ Trim(line) \notin {Trim(m) : m \in Range(RuleLinesOf(Split(manualContent)))}
        /\ \A j \in 1..k : \A h \in DOMAIN BodyLines(j) :
               (j < k \/ h < i) =>
                   ~(isRuleLine(BodyLines(j)[h]) /\ Trim(BodyLines(j)[h]) = Trim(line))

\* comment lines, blank lines and fresh rules
KeptLine(k, i) == ~isRuleLine(BodyLines(k)[i]) \/ FreshRule(k, i)

\* blank lines of the body behind which the body has nothing but blank lines
TrailingBlank(k) ==
    {i \in DOMAIN BodyLines(k) : \A j \in i..Len(BodyLines(k)) : Trim(BodyLines(k)[j]) = <<>>}

\* kept lines that are not among the empty lines ending the kept lines
EmittedLines(k) ==
    {i \in DOMAIN BodyLines(k) :
        /\ KeptLine(k, i)
        /\ \E j \in i..Len(BodyLines(k)) : KeptLine(k, j) /\ BodyLines(k)[j] # <<>>}

\* the lines of a body at the positions in S, in body order
Restrict(lines, S) ==
    LET at == SelectSeq(Indices(lines), LAMBDA i : i \in S)
    IN  [n \in 1..Len(at) |-> lines[at[n]]]

\* header, section and a blank line for the templates from k on
RECURSIVE SectionFrames(_, _)
SectionFrames(k, sections) ==
    IF k > Len(templates) THEN <<>>
    ELSE <<getSectionHeader(templates[k], useSimpleSectionSeparator)>>
             \o sections[k] \o << <<>> >> \o SectionFrames(k + 1, sections)

\* the block whose sections are the given ones, one blank line between sections
BlockOf(sections) ==
    LET framed == SectionFrames(1, sections)
        inner == IF framed = <<>> THEN <<>> ELSE SubSeq(framed, 1, Len(framed) - 1)
        lines == IF includeWatermark
                 THEN <<GENERATED_BLOCK_START>> \o inner \o <<GENERATED_BLOCK_END>>
                 ELSE inner
    IN  IF lines = <<>> THEN <<>> ELSE Join(lines)

\* section lists that emit every comment line, every non-trailing blank line
\* and every fresh rule of the bodies, no other rule, and any of the trailing
\* blank lines
RECURSIVE SectionListsFrom(_)
SectionListsFrom(k) ==
    IF k > Len(templates) THEN {<<>>}
    ELSE {<<Restrict(BodyLines(k),
                     {i \in DOMAIN BodyLines(k) : KeptLine(k, i) /\ i \notin TrailingBlank(k)}
                         \cup T)>> \o rest :
              T \in SUBSET TrailingBlank(k), rest \in SectionListsFrom(k + 1)}

SectionOf(k) == Restrict(BodyLines(k), EmittedLines(k))

\* C25: no section ends with a blank line (empty or whitespace-only), one
\* blank line separates consecutive sections, and none stands between the
\* last section and the end of the block
C25_SectionSpacing ==
    runs >= 1 =>
        /\ generatedBlock = BlockOf([k \in DOMAIN templates |-> SectionOf(k)])
        /\ \A k \in DOMAIN templates :
               SectionOf(k) # <<>> => Trim(SectionOf(k)[Len(SectionOf(k))]) # <<>>

\* the rules of all template bodies of the last call
TemplateRules == UNION {collectRuleSet(templates[k].source) : k \in DOMAIN templates}

\* C26: the rules of the output are the rules of the stripped manual
\* content together with the rules of the template bodies, no more and no
\* less; no section header and no sentinel is among them
C26_RulesConserved ==
    runs >= 1 =>
        /\ manualContent = stripGeneratedBlock(OrEmpty(existingContent))
        /\ collectRuleSet(merged) = collectRuleSet(manualContent) \cup TemplateRules
        /\ \A k \in DOMAIN templates :
               getSectionHeader(templates[k], useSimpleSectionSeparator)
                   \notin collectRuleSet(merged)
        /\ GENERATED_BLOCK_START \notin collectRuleSet(merged)
        /\ GENERATED_BLOCK_END \notin collectRuleSet(merged)

\* a watermarked merge of two templates into a file with trailing white
\* space: one rule shared with the manual content, one of the templates only
C26_Witness ==
    /\ runs = 1
    /\ includeWatermark
    /\ Len(templates) = 2
    /\ collectRuleSet(manualContent) \cap TemplateRules # {}
    /\ TemplateRules \ collectRuleSet(manualContent) # {}
    /\ manualContent # OrEmpty(existingContent)

====
